---- MODULE Spec2Model ----
(***************************************************************************)
(* Task planner: the month-view calendar (Calendar, TaskStrip) and the    *)
(* owner of the task collection (TaskPlanner, TaskModal).                  *)
(*                                                                         *)
(* Days are day-granular dates (local midnights), written as integers:     *)
(* day 1 is Sunday 2023-12-31, the first day of the January 2024 grid, so  *)
(* that day d is also the d-th cell of that grid.  addDays is +, and       *)
(* differenceInDays is -.  Every handler runs to completion before the     *)
(* next event (one React render per discrete event), so one action is one  *)
(* handler and the unprimed variables are the values its closure reads.    *)
(***************************************************************************)
EXTENDS Integers, Sequences, FiniteSets

(* ---- bounds of the model ---- *)
\* the pointer visits the last DaysBefore days of the first week row and the
\* first DaysAfter days of the second one
DaysBefore == 1
DaysAfter == 2
\* generateId is called at most MaxId times
MaxId == 1
\* the grid is navigated within the months 0 .. MaxMonth from January 2024
MaxMonth == 35

(* ---- program constants ---- *)
DaysPerWeek == 7
NoDay == 0
NoId == 0

Days == (DaysPerWeek - DaysBefore + 1)..(DaysPerWeek + DaysAfter)
Null == [null |-> TRUE]

VARIABLES
  tasks,          \* TaskPlanner: the task collection, in order
  nextId,         \* the next id generateId hands out
  selectedTask,   \* TaskPlanner: the task the modal shows, or Null
  isModalOpen,    \* TaskPlanner
  dragSelection,  \* TaskPlanner: [startDate, endDate, isSelecting]
  isDragging,     \* Calendar: a range selection is in progress
  draggedTask,    \* Calendar: the task object grabbed at pointer-down, or Null
  dragOffset,     \* Calendar
  hoveredDay,     \* Calendar: the last day entered, or NoDay
  resizingTask,   \* Calendar: [task, mode, originalDate], or Null
  categoryFilters,\* TaskPlanner: the active categories
  userFilters,    \* TaskPlanner: the active assignee names
  timeFilter,     \* TaskPlanner: "all", "1week", "2weeks" or "3weeks"
  currentDate,    \* TaskPlanner: the date whose month the grid shows
  now,            \* the clock read by new Date() at a render, in hours
  timeZone,       \* the browser's time zone
  storage,        \* localStorage["task-planner-tasks"]: [item |-> records], or Null
  loadedFrom,     \* history: what the load effect read from storage at the mount
  anchorDay,      \* history: the day of the pointer-down that began the selection
  taskBars,       \* TaskBar: the state of each mounted bar
  docListeners,   \* document: the listeners added and not removed, in order
  mount           \* TaskPlanner: how far the mount has got, and the setTasks it queued

calendarVars == <<isDragging, draggedTask, dragOffset, hoveredDay, resizingTask>>
progVars == <<tasks, nextId, selectedTask, isModalOpen, dragSelection,
              isDragging, draggedTask, dragOffset, hoveredDay, resizingTask>>
viewVars == <<categoryFilters, userFilters, timeFilter, currentDate, now, timeZone>>
vars == <<tasks, nextId, selectedTask, isModalOpen, dragSelection,
          isDragging, draggedTask, dragOffset, hoveredDay, resizingTask,
          categoryFilters, userFilters, timeFilter, currentDate, now, timeZone,
          storage, loadedFrom, anchorDay, taskBars, docListeners, mount>>
barVars == <<taskBars, docListeners>>

\* the mount is over: both effects have run and no setTasks is queued
Mounted == [pc |-> "done", pending |-> <<>>]

Max2(a, b) == IF a >= b THEN a ELSE b
Min2(a, b) == IF a <= b THEN a ELSE b

(* ---- TaskModal: what the form hands to onSave ---- *)
DefaultForm ==
  [name |-> "task", category |-> "To Do", assignedUser |-> "John Doe",
   priority |-> "P1", color |-> "blue"]
OtherForm ==
  [name |-> "renamed", category |-> "Review", assignedUser |-> "Jane Smith",
   priority |-> "P0", color |-> "green"]
FormOutputs == {DefaultForm, OtherForm}

NoSelection == [startDate |-> NoDay, endDate |-> NoDay, isSelecting |-> FALSE]

(* ---- TaskPlanner: the collection ---- *)
Range(s) == {s[i] : i \in 1..Len(s)}

Merge(task, updates) ==
  [f \in DOMAIN task |-> IF f \in DOMAIN updates THEN updates[f] ELSE task[f]]

\* updateTask adding a task when none has the id
updateTaskUpsert(prev, taskId, updates) ==
  IF \E i \in 1..Len(prev) : prev[i].id = taskId
    THEN [i \in 1..Len(prev) |->
            IF prev[i].id = taskId THEN Merge(prev[i], updates) ELSE prev[i]]
    ELSE Append(prev,
           Merge([id |-> taskId, name |-> "", category |-> "To Do",
                  startDate |-> 7, endDate |-> 7,
                  assignedUser |-> "John Doe", priority |-> "P1", color |-> "blue"],
                 updates))

\* updateTask merging the updates into every task
updateTaskAll(prev, taskId, updates) ==
  [i \in 1..Len(prev) |-> Merge(prev[i], updates)]

updateTask(prev, taskId, updates) ==
  [i \in 1..Len(prev) |->
     IF prev[i].id = taskId THEN Merge(prev[i], updates) ELSE prev[i]]

deleteTask(prev, taskId) ==
  LET Keep(t) == t.id # taskId IN SelectSeq(prev, Keep)

\* createTask putting the new task first
createTaskFirst(prev, id, form, startDate, endDate) ==
  <<[id |-> id, name |-> form.name, category |-> form.category,
     startDate |-> startDate, endDate |-> endDate,
     assignedUser |-> form.assignedUser, priority |-> form.priority,
     color |-> form.color]>> \o prev

createTask(prev, id, form, startDate, endDate) ==
  Append(prev,
    [id |-> id, name |-> form.name, category |-> form.category,
     startDate |-> startDate, endDate |-> endDate,
     assignedUser |-> form.assignedUser, priority |-> form.priority,
     color |-> form.color])

HasTask(id) == \E t \in Range(tasks) : t.id = id
TaskIn(coll, id) == CHOOSE t \in Range(coll) : t.id = id

(* ---- TaskPlanner: the filter state and the user directory ---- *)
categories == {"To Do", "In Progress", "Review", "Completed"}
mockUsers == <<"John Doe", "Jane Smith", "Mike Johnson", "Sarah Wilson", "David Brown">>

\* TaskModal: the enumerations the form offers
priorities == <<"P0", "P1", "P2">>
colors == <<"blue", "green", "purple", "orange", "red", "pink", "indigo", "teal">>
priorityLabels == [P0 |-> "Critical", P1 |-> "High", P2 |-> "Medium"]
TimeFilters == {"all", "1week", "2weeks", "3weeks"}

(* ---- TaskPlanner: the load and save effects ---- *)
\* A Date is its day number; NaN is the time value of an Invalid Date.  In
\* storage a date is what toJSON made of it: the ISO text of a day, or null for
\* an Invalid Date; a stored text that is no date has kind "text".
NaN == -1000000
EpochDay == -19721
JsonNull == [kind |-> "null"]
toJSON(date) == IF date = NaN THEN JsonNull ELSE [kind |-> "iso", day |-> date]

\* new Date(value) on a parsed JSON value
newDate(value) ==
  IF value.kind = "iso" THEN value.day
  ELSE IF value.kind = "null" THEN EpochDay
  ELSE NaN

\* JSON.stringify(tasks): a record per task, each Date through toJSON
JSONstringify(coll) ==
  [item |-> [i \in 1..Len(coll) |->
     [id |-> coll[i].id, name |-> coll[i].name, category |-> coll[i].category,
      startDate |-> toJSON(coll[i].startDate), endDate |-> toJSON(coll[i].endDate),
      assignedUser |-> coll[i].assignedUser, priority |-> coll[i].priority,
      color |-> coll[i].color]]]

\* a load that sets the three later fields to their defaults whatever is stored
orDefaultAlways(rec, field, fallback) == fallback

\* value || fallback, for a field that the record may lack
orDefault(rec, field, fallback) ==
  IF field \in DOMAIN rec /\ rec[field] # "" THEN rec[field] ELSE fallback

\* the load effect: JSON.parse(savedTasks).map(...), or nothing when no item is stored
loadTasks(saved) ==
  IF saved = Null THEN <<>>
  ELSE [i \in 1..Len(saved.item) |->
     LET task == saved.item[i]
     IN [id |-> task.id, name |-> task.name, category |-> task.category,
         startDate |-> newDate(task.startDate), endDate |-> newDate(task.endDate),
         assignedUser |-> orDefault(task, "assignedUser", mockUsers[1]),
         priority |-> orDefault(task, "priority", "P1"),
         color |-> orDefault(task, "color", "blue")]]

\* the save effect writing the collection its handler's closure read
saveEffectStale == storage' = JSONstringify(tasks)

\* the save effect, run after every render that follows a setTasks
saveEffect == storage' = JSONstringify(tasks')

\* the mount: nothing is stored, and the page opens on 2024-01-06; the clock
\* of no time zone changes within the January grid
Init ==
  /\ categoryFilters = categories
  /\ userFilters = Range(mockUsers)
  /\ timeFilter = "all"
  /\ currentDate = 7
  /\ now = 0
  /\ timeZone = "UTC"
  /\ loadedFrom = Null
  /\ storage = JSONstringify(loadTasks(Null))
  /\ tasks = <<>>
  /\ nextId = 1
  /\ selectedTask = Null
  /\ isModalOpen = FALSE
  /\ dragSelection = NoSelection
  /\ isDragging = FALSE
  /\ draggedTask = Null
  /\ dragOffset = 0
  /\ hoveredDay = NoDay
  /\ resizingTask = Null
  /\ anchorDay = NoDay
  /\ taskBars = <<>>
  /\ docListeners = <<>>
  /\ mount = Mounted

(* ---- dates (date-fns and Date) ---- *)
\* months are counted from January 2024: month index k is month k % 12
\* (0 = January) of year 2024 + k \div 12
MonthsPerYear == 12
FirstYear == 2024
\* the day number of 2024-01-01
FirstDayOfFirstYear == 2
isLeapYear(year) == (year % 4 = 0 /\ year % 100 # 0) \/ year % 400 = 0
getDaysInMonth(k) ==
  LET month == k % MonthsPerYear
      year == FirstYear + k \div MonthsPerYear
  IN IF month = 1 THEN (IF isLeapYear(year) THEN 29 ELSE 28)
     ELSE IF month \in {3, 5, 8, 10} THEN 30 ELSE 31

RECURSIVE firstOfMonth(_)
firstOfMonth(k) ==
  IF k = 0 THEN FirstDayOfFirstYear
  ELSE firstOfMonth(k - 1) + getDaysInMonth(k - 1)

\* the month index of a date, and its day of the month
getMonthIndex(date) ==
  CHOOSE k \in 0..(MaxMonth + 2) : firstOfMonth(k) <= date /\ date < firstOfMonth(k + 1)
getDate(date) == date - firstOfMonth(getMonthIndex(date)) + 1

startOfMonth(date) == firstOfMonth(getMonthIndex(date))
endOfMonth(date) == firstOfMonth(getMonthIndex(date) + 1) - 1

\* addMonths: the same day of the target month, or its last day when the
\* month is shorter
addMonths(date, amount) ==
  LET k == getMonthIndex(date) + amount
  IN firstOfMonth(k) + Min2(getDate(date), getDaysInMonth(k)) - 1
subMonths(date, amount) == addMonths(date, -amount)

\* 0 = Sunday
getDay(date) == (date - 1) % DaysPerWeek
\* the week starts on Sunday (weekStartsOn defaults to 0)
startOfWeek(date) == date - getDay(date)
endOfWeek(date) == date + (DaysPerWeek - 1 - getDay(date))

\* Date.getTime() of the local midnight of a day, in hours.  In
\* America/New_York the midnights of 2024-03-11 .. 2024-11-03 (days 72 .. 309)
\* are in daylight time, four hours behind UTC, the others five hours behind.
HoursPerDay == 24
TimeZones == {"UTC", "America/New_York"}
DstFirstDay == 72
DstLastDay == 309
utcOffset(day) ==
  IF timeZone = "UTC" THEN 0
  ELSE IF day >= DstFirstDay /\ day <= DstLastDay THEN 4 ELSE 5
getTime(day) == day * HoursPerDay + utcOffset(day)
\* the last hour of a day (endOfWeek and endOfMonth give 23:59:59.999)
endOfDayTime(day) == getTime(day + 1) - 1

\* eachDayOfInterval: the days from start whose midnight is not after the end
\* instant
MaxInterval == 42
eachDayOfInterval(start, endTime) ==
  LET n == Cardinality({d \in start..(start + MaxInterval) : getTime(d) <= endTime})
  IN [i \in 1..n |-> start + i - 1]

(* ---- Calendar: the grid ---- *)
monthStart == startOfMonth(currentDate)
monthEnd == endOfMonth(currentDate)
calendarStart == startOfWeek(monthStart)
\* calendarEnd without the padding to the end of the week
calendarEndNoPad == monthEnd
calendarEnd == endOfWeek(monthEnd)
days == eachDayOfInterval(calendarStart, endOfDayTime(calendarEnd))

\* for (i = 0; i < days.length; i += 7) weeks.push(days.slice(i, i + 7))
weeks ==
  [w \in 1..((Len(days) + DaysPerWeek - 1) \div DaysPerWeek) |->
     SubSeq(days, DaysPerWeek * (w - 1) + 1, Min2(DaysPerWeek * w, Len(days)))]

(* ---- Calendar: the week rows the pointer visits ---- *)
weekStartOf(day) == ((day - 1) \div DaysPerWeek) * DaysPerWeek + 1
WeekStarts == {weekStartOf(d) : d \in Days}
weekDays(weekStart) == [i \in 1..DaysPerWeek |-> weekStart + i - 1]

\* Math.ceil(a / b), b > 0
ceilDiv(a, b) == -((-a) \div b)
\* the divisor 1000 * 60 * 60 * 1000 (milliseconds), in hours
DaysDiffDivisor == 1000
\* daysDiff counting the distance on both sides of now
daysDiffAbs(task) ==
  LET diff == getTime(task.startDate) - now
  IN ceilDiv(IF diff >= 0 THEN diff ELSE -diff, DaysDiffDivisor)

daysDiff(task) == ceilDiv(getTime(task.startDate) - now, DaysDiffDivisor)

\* taskFilter taking each window as the week it adds: 2weeks the second week
\* from now only, 3weeks the third
taskFilterBands(task) ==
  IF task.category \notin categoryFilters THEN FALSE
  ELSE IF task.assignedUser \notin userFilters THEN FALSE
  ELSE IF timeFilter # "all"
    THEN CASE timeFilter = "1week" -> daysDiff(task) <= 7
           [] timeFilter = "2weeks" -> daysDiff(task) > 7 /\ daysDiff(task) <= 14
           [] timeFilter = "3weeks" -> daysDiff(task) > 14 /\ daysDiff(task) <= 21
           [] OTHER -> TRUE
    ELSE TRUE

\* the callback of tasks.filter
taskFilter(task) ==
  IF task.category \notin categoryFilters THEN FALSE
  ELSE IF task.assignedUser \notin userFilters THEN FALSE
  ELSE IF timeFilter # "all"
    THEN CASE timeFilter = "1week" -> daysDiff(task) <= 7
           [] timeFilter = "2weeks" -> daysDiff(task) <= 14
           [] timeFilter = "3weeks" -> daysDiff(task) <= 21
           [] OTHER -> TRUE
    ELSE TRUE

filteredTasks == SelectSeq(tasks, taskFilter)

\* its weekDays run from weekStart to the instant 6 * 24 hours later
getTasksForWeek(weekStart) ==
  LET wd == eachDayOfInterval(weekStart, getTime(weekStart) + 6 * HoursPerDay)
      InWeek(task) ==
        \E i \in 1..Len(wd) : wd[i] >= task.startDate /\ wd[i] <= task.endDate
  IN SelectSeq(filteredTasks, InWeek)

(* ---- TaskStrip: the segment of a task in one week row ---- *)
taskStart(task, weekStart) == Max2(task.startDate, weekStart)
taskEnd(task, weekStart) == Min2(task.endDate, weekDays(weekStart)[DaysPerWeek])

\* findIndex counting the days of the week from 1
findIndexOneBased(wd, day) ==
  IF \E i \in 1..Len(wd) : wd[i] = day
    THEN CHOOSE i \in 1..Len(wd) : wd[i] = day
    ELSE -1

\* findIndex: 0-based, -1 when no day of the week is the given day
findIndex(wd, day) ==
  IF \E i \in 1..Len(wd) : wd[i] = day
    THEN (CHOOSE i \in 1..Len(wd) : wd[i] = day) - 1
    ELSE -1
startDayIndex(task, weekStart) == findIndex(weekDays(weekStart), taskStart(task, weekStart))
endDayIndex(task, weekStart) == findIndex(weekDays(weekStart), taskEnd(task, weekStart))

\* where the pointer went down on the strip: the day column under it (0-based
\* within the segment) and whether it is within the pixel margin of that column's
\* outer side; a day column is wider than two margins
ClickParts == {"leftMargin", "middle", "rightMargin"}
isLeftEdge(col, part) == col = 0 /\ part = "leftMargin"
isRightEdge(col, part, columns) == col = columns - 1 /\ part = "rightMargin"

(* ---- Calendar: gesture starts, called by TaskStrip ---- *)
handleTaskDragStart(task, dayClicked) ==
  /\ draggedTask' = task
  /\ dragOffset' = dayClicked - task.startDate
  /\ UNCHANGED <<tasks, nextId, selectedTask, isModalOpen, dragSelection,
                 isDragging, hoveredDay, resizingTask>>

handleTaskResizeStart(task, mode) ==
  /\ resizingTask' =
       [task |-> task, mode |-> mode,
        originalDate |-> IF mode = "right" THEN task.endDate ELSE task.startDate]
  /\ UNCHANGED <<tasks, nextId, selectedTask, isModalOpen, dragSelection,
                 isDragging, draggedTask, dragOffset, hoveredDay>>

\* TaskStripMouseDown taking either margin of the segment as a resize handle,
\* true boundary or not
TaskStripMouseDownAnyEdge(task, weekStart, col, part) ==
  LET columns == endDayIndex(task, weekStart) - startDayIndex(task, weekStart) + 1
  IN /\ ~isModalOpen
     /\ startDayIndex(task, weekStart) # -1 /\ endDayIndex(task, weekStart) # -1
     /\ col \in 0..(columns - 1)
     /\ taskStart(task, weekStart) + col \in Days
     /\ IF isLeftEdge(col, part)
          THEN handleTaskResizeStart(task, "left")
          ELSE IF isRightEdge(col, part, columns)
            THEN handleTaskResizeStart(task, "right")
            ELSE handleTaskDragStart(task, taskStart(task, weekStart) + col)

\* TaskStrip.handleMouseDown; stopPropagation keeps the cell's handler out
TaskStripMouseDown(task, weekStart, col, part) ==
  LET columns == endDayIndex(task, weekStart) - startDayIndex(task, weekStart) + 1
  IN /\ ~isModalOpen
     /\ startDayIndex(task, weekStart) # -1 /\ endDayIndex(task, weekStart) # -1
     /\ col \in 0..(columns - 1)
     /\ taskStart(task, weekStart) + col \in Days
     /\ IF isLeftEdge(col, part) /\ taskStart(task, weekStart) = task.startDate
          THEN handleTaskResizeStart(task, "left")
          ELSE IF isRightEdge(col, part, columns) /\ taskEnd(task, weekStart) = task.endDate
            THEN handleTaskResizeStart(task, "right")
            ELSE handleTaskDragStart(task, taskStart(task, weekStart) + col)

(* ---- Calendar: pointer handlers on the day cells ---- *)
\* the pointer is pressed on the cell it is over: the cell's onMouseEnter came
\* first, unless a pointer-up or a leave has cleared hoveredDay since
handleMouseDown(day) ==
  /\ ~isModalOpen
  /\ hoveredDay \in {day, NoDay}
  /\ IF draggedTask # Null \/ resizingTask # Null
       THEN UNCHANGED progVars
       ELSE /\ isDragging' = TRUE
            /\ dragSelection' =
                 [startDate |-> day, endDate |-> day, isSelecting |-> TRUE]
            /\ UNCHANGED <<tasks, nextId, selectedTask, isModalOpen,
                           draggedTask, dragOffset, hoveredDay, resizingTask>>

\* dropUpdates with the end measured from the hovered day
dropUpdatesEndFromTarget(dragged, offset, targetDay) ==
  LET taskDuration == dragged.endDate - dragged.startDate
      newStartDate == targetDay - offset
      newEndDate == targetDay + taskDuration
  IN [startDate |-> newStartDate, endDate |-> newEndDate]

\* dropUpdates without the grab offset
dropUpdatesNoOffset(dragged, offset, targetDay) ==
  LET taskDuration == dragged.endDate - dragged.startDate
      newStartDate == targetDay
      newEndDate == newStartDate + taskDuration
  IN [startDate |-> newStartDate, endDate |-> newEndDate]

\* dropUpdates taking the offset as counted from 1
dropUpdatesOneBasedOffset(dragged, offset, targetDay) ==
  LET taskDuration == dragged.endDate - dragged.startDate
      newStartDate == targetDay - (offset + 1)
      newEndDate == newStartDate + taskDuration
  IN [startDate |-> newStartDate, endDate |-> newEndDate]

\* handleTaskDrop: the updates handed to onTaskUpdate
dropUpdates(dragged, offset, targetDay) ==
  LET taskDuration == dragged.endDate - dragged.startDate
      newStartDate == targetDay - offset
      newEndDate == newStartDate + taskDuration
  IN [startDate |-> newStartDate, endDate |-> newEndDate]

handleTaskDrop(prev, targetDay) ==
  IF draggedTask # Null
    THEN updateTask(prev, draggedTask.id, dropUpdates(draggedTask, dragOffset, targetDay))
    ELSE prev

\* selectionOnEnter with the hovered day always taken as the end
selectionOnEnterUnordered(sel, day) ==
  [startDate |-> sel.startDate, endDate |-> day, isSelecting |-> TRUE]

\* the selection after the pointer enters a day while selecting
selectionOnEnter(sel, day) ==
  LET start == sel.startDate
      end == day
  IN [startDate |-> IF start <= end THEN start ELSE end,
      endDate |-> IF start <= end THEN end ELSE start,
      isSelecting |-> TRUE]

\* resizeOnEnter without its guards
resizeOnEnterUnguarded(prev, rt, day) ==
  IF rt.mode = "right"
    THEN updateTask(prev, rt.task.id, [endDate |-> day])
    ELSE updateTask(prev, rt.task.id, [startDate |-> day])

\* resizeOnEnter with each edge guarded by the other edge's test
resizeOnEnterSwapped(prev, rt, day) ==
  IF rt.mode = "right"
    THEN IF day <= rt.task.endDate
           THEN updateTask(prev, rt.task.id, [endDate |-> day])
           ELSE prev
    ELSE IF day >= rt.task.startDate
           THEN updateTask(prev, rt.task.id, [startDate |-> day])
           ELSE prev

\* resizeOnEnter refusing the day of the opposite boundary itself
resizeOnEnterStrict(prev, rt, day) ==
  IF rt.mode = "right"
    THEN IF day > rt.task.startDate
           THEN updateTask(prev, rt.task.id, [endDate |-> day])
           ELSE prev
    ELSE IF day < rt.task.endDate
           THEN updateTask(prev, rt.task.id, [startDate |-> day])
           ELSE prev

\* resizeOnEnter letting the resized boundary move outwards only
resizeOnEnterRatchet(prev, rt, day) ==
  IF ~(\E i \in 1..Len(prev) : prev[i].id = rt.task.id) THEN prev
  ELSE LET current == prev[CHOOSE i \in 1..Len(prev) : prev[i].id = rt.task.id]
       IN IF rt.mode = "right"
            THEN IF day >= current.endDate
                   THEN updateTask(prev, rt.task.id, [endDate |-> day])
                   ELSE prev
            ELSE IF day <= current.startDate
                   THEN updateTask(prev, rt.task.id, [startDate |-> day])
                   ELSE prev

\* the collection after the pointer enters a day while resizing
resizeOnEnter(prev, rt, day) ==
  IF rt.mode = "right"
    THEN IF day >= rt.task.startDate
           THEN updateTask(prev, rt.task.id, [endDate |-> day])
           ELSE prev
    ELSE IF day <= rt.task.endDate
           THEN updateTask(prev, rt.task.id, [startDate |-> day])
           ELSE prev

\* handleMouseEnter moving the dragged task to the entered day at once
handleMouseEnterMoving(day) ==
  /\ ~isModalOpen
  /\ hoveredDay' = day
  /\ dragSelection' =
       IF isDragging /\ dragSelection.startDate # NoDay
          /\ draggedTask = Null /\ resizingTask = Null
         THEN selectionOnEnter(dragSelection, day)
         ELSE dragSelection
  /\ tasks' = IF resizingTask # Null
                THEN resizeOnEnter(tasks, resizingTask, day)
                ELSE handleTaskDrop(tasks, day)
  /\ UNCHANGED <<nextId, selectedTask, isModalOpen, isDragging, draggedTask,
                 dragOffset, resizingTask>>

handleMouseEnter(day) ==
  /\ ~isModalOpen
  /\ hoveredDay' = day
  /\ dragSelection' =
       IF isDragging /\ dragSelection.startDate # NoDay
          /\ draggedTask = Null /\ resizingTask = Null
         THEN selectionOnEnter(dragSelection, day)
         ELSE dragSelection
  /\ tasks' = IF resizingTask # Null THEN resizeOnEnter(tasks, resizingTask, day)
                                     ELSE tasks
  /\ UNCHANGED <<nextId, selectedTask, isModalOpen, isDragging, draggedTask,
                 dragOffset, resizingTask>>

\* the model keeps every date among the days the pointer visits
DropInBounds ==
  (draggedTask # Null /\ hoveredDay # NoDay) =>
    LET u == dropUpdates(draggedTask, dragOffset, hoveredDay)
    IN u.startDate \in Days /\ u.endDate \in Days

\* emitsRange without the test that no task is dragged or resized
emitsRangeAnyGesture ==
  /\ isDragging
  /\ dragSelection.startDate # NoDay /\ dragSelection.endDate # NoDay

\* handleDragSelection (TaskPlanner), called with the committed range
emitsRange ==
  /\ isDragging
  /\ dragSelection.startDate # NoDay /\ dragSelection.endDate # NoDay
  /\ draggedTask = Null /\ resizingTask = Null

blankTask(startDate, endDate) ==
  [id |-> NoId, name |-> "", category |-> "To Do",
   startDate |-> startDate, endDate |-> endDate,
   assignedUser |-> "John Doe", priority |-> "P1", color |-> "blue"]

handleMouseUp ==
  /\ ~isModalOpen
  /\ DropInBounds
  /\ IF emitsRange
       THEN /\ dragSelection' = [startDate |-> dragSelection.startDate,
                                 endDate |-> dragSelection.endDate,
                                 isSelecting |-> FALSE]
            /\ selectedTask' = blankTask(dragSelection.startDate, dragSelection.endDate)
            /\ isModalOpen' = TRUE
       ELSE UNCHANGED <<dragSelection, selectedTask, isModalOpen>>
  /\ tasks' = IF draggedTask # Null /\ hoveredDay # NoDay
                THEN handleTaskDrop(tasks, hoveredDay)
                ELSE tasks
  /\ resizingTask' = Null
  /\ isDragging' = FALSE
  /\ draggedTask' = Null
  /\ hoveredDay' = NoDay
  /\ UNCHANGED <<nextId, dragOffset>>

\* onMouseLeave dropping the dragged task on the hovered day, as a release does
onMouseLeaveDrops ==
  /\ ~isModalOpen
  /\ DropInBounds
  /\ tasks' = IF draggedTask # Null /\ hoveredDay # NoDay
                THEN handleTaskDrop(tasks, hoveredDay)
                ELSE tasks
  /\ isDragging' = FALSE
  /\ draggedTask' = Null
  /\ hoveredDay' = NoDay
  /\ resizingTask' = Null
  /\ UNCHANGED <<nextId, selectedTask, isModalOpen, dragSelection, dragOffset>>

\* onMouseLeave putting the resized edge back to originalDate
onMouseLeaveRollsBack ==
  /\ ~isModalOpen
  /\ tasks' = IF resizingTask = Null THEN tasks
              ELSE IF resizingTask.mode = "right"
                THEN updateTask(tasks, resizingTask.task.id,
                                [endDate |-> resizingTask.originalDate])
                ELSE updateTask(tasks, resizingTask.task.id,
                                [startDate |-> resizingTask.originalDate])
  /\ isDragging' = FALSE
  /\ draggedTask' = Null
  /\ hoveredDay' = NoDay
  /\ resizingTask' = Null
  /\ UNCHANGED <<nextId, selectedTask, isModalOpen, dragSelection, dragOffset>>

\* onMouseLeave leaving the resize in progress
onMouseLeaveKeepsResize ==
  /\ ~isModalOpen
  /\ isDragging' = FALSE
  /\ draggedTask' = Null
  /\ hoveredDay' = NoDay
  /\ UNCHANGED <<tasks, nextId, selectedTask, isModalOpen, dragSelection,
                 dragOffset, resizingTask>>

\* onMouseLeave of the grid container
onMouseLeave ==
  /\ ~isModalOpen
  /\ isDragging' = FALSE
  /\ draggedTask' = Null
  /\ hoveredDay' = NoDay
  /\ resizingTask' = Null
  /\ UNCHANGED <<tasks, nextId, selectedTask, isModalOpen, dragSelection, dragOffset>>

(* ---- TaskStrip.handleClick -> TaskPlanner.handleTaskEdit ---- *)
\* isDragStarted is set by the strip's pointer-down and cleared by its effect as
\* soon as the task is neither dragged nor resized
isDragStarted(task) ==
  \/ (draggedTask # Null /\ draggedTask.id = task.id)
  \/ (resizingTask # Null /\ resizingTask.task.id = task.id)

\* a click follows the pointer-up on the same strip, which the container handled
TaskStripClick(task) ==
  /\ ~isModalOpen
  /\ ~isDragging /\ draggedTask = Null /\ resizingTask = Null /\ hoveredDay = NoDay
  /\ ~isDragStarted(task)
  /\ selectedTask' = task
  /\ isModalOpen' = TRUE
  /\ UNCHANGED <<tasks, nextId, dragSelection, isDragging, draggedTask,
                 dragOffset, hoveredDay, resizingTask>>

(* ---- TaskPlanner: the modal's callbacks ---- *)
\* handleModalSave writing the task the form was opened on, with the form's
\* fields, over the task in the collection
handleModalSaveWholeTask(form) ==
  /\ isModalOpen
  /\ form.name # ""
  /\ IF selectedTask # Null
       THEN IF selectedTask.id # NoId
              THEN /\ tasks' = updateTask(tasks, selectedTask.id, Merge(selectedTask, form))
                   /\ UNCHANGED nextId
              ELSE /\ nextId <= MaxId
                   /\ tasks' = createTask(tasks, nextId, form,
                                          selectedTask.startDate, selectedTask.endDate)
                   /\ nextId' = nextId + 1
       ELSE UNCHANGED <<tasks, nextId>>
  /\ isModalOpen' = FALSE
  /\ selectedTask' = Null
  /\ dragSelection' = NoSelection
  /\ UNCHANGED calendarVars

handleModalSave(form) ==
  /\ isModalOpen
  /\ form.name # ""
  /\ IF selectedTask # Null
       THEN IF selectedTask.id # NoId
              THEN /\ tasks' = updateTask(tasks, selectedTask.id, form)
                   /\ UNCHANGED nextId
              ELSE /\ nextId <= MaxId
                   /\ tasks' = createTask(tasks, nextId, form,
                                          selectedTask.startDate, selectedTask.endDate)
                   /\ nextId' = nextId + 1
       ELSE UNCHANGED <<tasks, nextId>>
  /\ isModalOpen' = FALSE
  /\ selectedTask' = Null
  /\ dragSelection' = NoSelection
  /\ UNCHANGED calendarVars

handleModalClose ==
  /\ isModalOpen
  /\ isModalOpen' = FALSE
  /\ selectedTask' = Null
  /\ dragSelection' = NoSelection
  /\ UNCHANGED <<tasks, nextId>>
  /\ UNCHANGED calendarVars

\* TaskModal.handleDelete: deleteTask, then onClose
handleDelete ==
  /\ isModalOpen
  /\ selectedTask # Null /\ selectedTask.id # NoId
  /\ tasks' = deleteTask(tasks, selectedTask.id)
  /\ isModalOpen' = FALSE
  /\ selectedTask' = Null
  /\ dragSelection' = NoSelection
  /\ UNCHANGED nextId
  /\ UNCHANGED calendarVars

(* ---- the events the browser delivers ---- *)
MouseDown == \E day \in Days : handleMouseDown(day) /\ saveEffect /\ UNCHANGED <<anchorDay, viewVars, loadedFrom, barVars, mount>>

MouseEnter == \E day \in Days : handleMouseEnter(day) /\ saveEffect /\ UNCHANGED <<anchorDay, viewVars, loadedFrom, barVars, mount>>

MouseUp == handleMouseUp /\ saveEffect /\ UNCHANGED <<anchorDay, viewVars, loadedFrom, barVars, mount>>

MouseLeave == onMouseLeave /\ saveEffect /\ UNCHANGED <<anchorDay, viewVars, loadedFrom, barVars, mount>>

StripMouseDown ==
  \E weekStart \in WeekStarts : \E i \in 1..Len(getTasksForWeek(weekStart)) :
    \E col \in 0..(DaysPerWeek - 1) : \E part \in ClickParts :
      /\ TaskStripMouseDown(getTasksForWeek(weekStart)[i], weekStart, col, part)
      /\ saveEffect /\ UNCHANGED <<anchorDay, viewVars, loadedFrom, barVars, mount>>

StripClick ==
  \E i \in 1..Len(filteredTasks) : TaskStripClick(filteredTasks[i]) /\ saveEffect /\ UNCHANGED <<anchorDay, viewVars, loadedFrom, barVars, mount>>

ModalSave == \E form \in FormOutputs : handleModalSave(form) /\ saveEffect /\ UNCHANGED <<anchorDay, viewVars, loadedFrom, barVars, mount>>

ModalClose == handleModalClose /\ saveEffect /\ UNCHANGED <<anchorDay, viewVars, loadedFrom, barVars, mount>>

ModalDelete == handleDelete /\ saveEffect /\ UNCHANGED <<anchorDay, viewVars, loadedFrom, barVars, mount>>

Next ==
  \/ MouseDown
  \/ MouseEnter
  \/ MouseUp
  \/ MouseLeave
  \/ StripMouseDown
  \/ StripClick
  \/ ModalSave
  \/ ModalClose
  \/ ModalDelete

Spec == Init /\ [][Next]_vars

\* the same program, with the day of the pointer-down that began the selection
\* recorded in anchorDay
startsSelection == draggedTask = Null /\ resizingTask = Null

MouseDownAnchored ==
  \E day \in Days :
    /\ handleMouseDown(day)
    /\ anchorDay' = IF startsSelection THEN day ELSE anchorDay
    /\ saveEffect /\ UNCHANGED <<viewVars, loadedFrom, barVars, mount>>

NextAnchor ==
  \/ MouseDownAnchored
  \/ MouseEnter
  \/ MouseUp
  \/ MouseLeave
  \/ StripMouseDown
  \/ StripClick
  \/ ModalSave
  \/ ModalClose
  \/ ModalDelete

SpecAnchor == Init /\ [][NextAnchor]_vars

(***************************************************************************)
(* The filter panel over a mounted collection: FilterSidebar's handlers    *)
(* and the clock, with the collection as the mount loaded it.              *)
(***************************************************************************)
\* the pages the collection is mounted on: January 2024 and November 2024
ViewPages == {firstOfMonth(0) + 5, firstOfMonth(10) + 14}
\* date ranges of the mounted tasks, as cells of the grid (1 = its first day):
\* within a week, across two weeks and three, from a Saturday on
ViewRanges == {<<2, 3>>, <<5, 6>>, <<6, 9>>, <<3, 17>>, <<14, 15>>}
\* the categories and users the panel toggles in the model
ToggledCategories == {"To Do", "Review"}
ToggledUsers == {"John Doe", "Jane Smith"}
\* the clock readings, in hours from the midnight that begins the grid: 400 and
\* 10 days before its second day, 350 days after its first
NowOffsets == {-9576, -216, 8400}
NowValues == {getTime(calendarStart) + offset : offset \in NowOffsets}

viewTask(id, category, user, range) ==
  [id |-> id, name |-> "task", category |-> category,
   startDate |-> calendarStart + range[1] - 1, endDate |-> calendarStart + range[2] - 1,
   assignedUser |-> user, priority |-> "P1", color |-> "blue"]

ViewCollections ==
  {<<viewTask(1, c, u, r1), viewTask(2, "Review", "Jane Smith", r2)>> :
     c \in ToggledCategories, u \in ToggledUsers, r1 \in ViewRanges, r2 \in ViewRanges}

InitView ==
  /\ currentDate \in ViewPages
  /\ timeZone \in TimeZones
  /\ now \in NowValues
  /\ tasks \in ViewCollections
  /\ nextId = Len(tasks) + 1
  /\ selectedTask = Null
  /\ isModalOpen = FALSE
  /\ dragSelection = NoSelection
  /\ isDragging = FALSE
  /\ draggedTask = Null
  /\ dragOffset = 0
  /\ hoveredDay = NoDay
  /\ resizingTask = Null
  /\ categoryFilters = categories
  /\ userFilters = Range(mockUsers)
  /\ timeFilter = "all"
  /\ storage = JSONstringify(tasks)
  /\ loadedFrom = storage
  /\ anchorDay = NoDay
  /\ taskBars = <<>>
  /\ docListeners = <<>>
  /\ mount = Mounted

\* FilterSidebar
handleCategoryToggle(category) ==
  /\ categoryFilters' = IF category \in categoryFilters
                          THEN categoryFilters \ {category}
                          ELSE categoryFilters \cup {category}
  /\ UNCHANGED <<userFilters, timeFilter>>

handleUserToggle(userName) ==
  /\ userFilters' = IF userName \in userFilters
                      THEN userFilters \ {userName}
                      ELSE userFilters \cup {userName}
  /\ UNCHANGED <<categoryFilters, timeFilter>>

setTimeFilter(value) ==
  /\ timeFilter' = value
  /\ UNCHANGED <<categoryFilters, userFilters>>

viewRest == <<tasks, nextId, selectedTask, isModalOpen, dragSelection,
              isDragging, draggedTask, dragOffset, hoveredDay, resizingTask,
              currentDate, timeZone, storage, loadedFrom, anchorDay,
              taskBars, docListeners, mount>>

CategoryToggle ==
  \E category \in ToggledCategories :
    handleCategoryToggle(category) /\ UNCHANGED <<now, viewRest>>

UserToggle ==
  \E userName \in ToggledUsers :
    handleUserToggle(userName) /\ UNCHANGED <<now, viewRest>>

TimeFilterChange ==
  \E value \in TimeFilters :
    setTimeFilter(value) /\ UNCHANGED <<now, viewRest>>

\* time passes before the next render
Tick ==
  /\ \E later \in NowValues : later > now /\ now' = later
  /\ UNCHANGED <<categoryFilters, userFilters, timeFilter, viewRest>>

NextView ==
  \/ CategoryToggle
  \/ UserToggle
  \/ TimeFilterChange
  \/ Tick

SpecView == InitView /\ [][NextView]_vars

\* the week rows of the mounted collection under the category and user
\* filters, the time filter left on all
NextRows ==
  \/ CategoryToggle
  \/ UserToggle

SpecRows == InitView /\ [][NextRows]_vars

\* the time windows at their edges: clock readings, in hours from the midnight
\* that begins the grid, from which the mounted tasks start on either side of
\* the 7, 14 and 21 units of daysDiff, all within 7 and all beyond 21
WindowOffsets == {-24000, -20800, -13800, -6800, -216}
WindowNowValues == {getTime(calendarStart) + offset : offset \in WindowOffsets}

InitWindows ==
  /\ currentDate = firstOfMonth(0) + 5
  /\ timeZone = "UTC"
  /\ now \in WindowNowValues
  /\ tasks \in ViewCollections
  /\ nextId = Len(tasks) + 1
  /\ selectedTask = Null
  /\ isModalOpen = FALSE
  /\ dragSelection = NoSelection
  /\ isDragging = FALSE
  /\ draggedTask = Null
  /\ dragOffset = 0
  /\ hoveredDay = NoDay
  /\ resizingTask = Null
  /\ categoryFilters = categories
  /\ userFilters = Range(mockUsers)
  /\ timeFilter = "all"
  /\ storage = JSONstringify(tasks)
  /\ loadedFrom = storage
  /\ anchorDay = NoDay
  /\ taskBars = <<>>
  /\ docListeners = <<>>
  /\ mount = Mounted

\* the panel's handlers, the clock standing still
NextWindows ==
  \/ CategoryToggle
  \/ UserToggle
  \/ TimeFilterChange

SpecWindows == InitWindows /\ [][NextWindows]_vars

(***************************************************************************)
(* The month navigation: the page is opened on some day and the header's   *)
(* buttons move it a month back or forth.                                  *)
(***************************************************************************)
\* the days of January 2024 on which the page is opened
OpeningDates == {6, 29, 31}

InitGrid ==
  /\ tasks = <<>>
  /\ nextId = 1
  /\ selectedTask = Null
  /\ isModalOpen = FALSE
  /\ dragSelection = NoSelection
  /\ isDragging = FALSE
  /\ draggedTask = Null
  /\ dragOffset = 0
  /\ hoveredDay = NoDay
  /\ resizingTask = Null
  /\ categoryFilters = categories
  /\ userFilters = Range(mockUsers)
  /\ timeFilter = "all"
  /\ \E d \in OpeningDates : currentDate = firstOfMonth(0) + d - 1
  /\ now = 0
  /\ timeZone \in TimeZones
  /\ loadedFrom = Null
  /\ storage = JSONstringify(loadTasks(Null))
  /\ anchorDay = NoDay
  /\ taskBars = <<>>
  /\ docListeners = <<>>
  /\ mount = Mounted

navigateMonth(direction) ==
  /\ currentDate' = IF direction = "prev" THEN subMonths(currentDate, 1)
                                          ELSE addMonths(currentDate, 1)
  /\ UNCHANGED <<categoryFilters, userFilters, timeFilter, now, timeZone>>
  /\ UNCHANGED <<tasks, nextId, selectedTask, isModalOpen, dragSelection,
                 isDragging, draggedTask, dragOffset, hoveredDay, resizingTask,
                 storage, loadedFrom, anchorDay, taskBars, docListeners, mount>>

NavigatePrev == getMonthIndex(currentDate) > 0 /\ navigateMonth("prev")

NavigateNext == getMonthIndex(currentDate) < MaxMonth /\ navigateMonth("next")

NextGrid ==
  \/ NavigatePrev
  \/ NavigateNext

SpecGrid == InitGrid /\ [][NextGrid]_vars

(***************************************************************************)
(* The collection and its storage: the page is mounted on what an earlier  *)
(* session (or an earlier version) left in storage, the collection's       *)
(* callbacks are called, and the page is reloaded.                         *)
(***************************************************************************)
\* a stored text that new Date cannot parse
Unparseable == [kind |-> "text"]

\* a record as stored: complete, or from a version without the three later fields
storedRecord(id, startDate, endDate, legacy) ==
  IF legacy
    THEN [id |-> id, name |-> "task", category |-> "To Do",
          startDate |-> startDate, endDate |-> endDate]
    ELSE [id |-> id, name |-> "task", category |-> "To Do",
          startDate |-> startDate, endDate |-> endDate,
          assignedUser |-> "Jane Smith", priority |-> "P0", color |-> "green"]

\* at most MaxStored records are found in storage
MaxStored == 2
StoredDates ==
  {<<toJSON(7), toJSON(8)>>, <<Unparseable, toJSON(8)>>, <<toJSON(7), Unparseable>>}
StoredRecords(id) ==
  {storedRecord(id, d[1], d[2], legacy) : d \in StoredDates, legacy \in BOOLEAN}
RECURSIVE StoredItems(_)
StoredItems(n) ==
  IF n = 0 THEN {<<>>}
  ELSE {Append(items, r) : items \in StoredItems(n - 1), r \in StoredRecords(n)}
StoredInputs ==
  {Null} \cup {[item |-> items] : items \in UNION {StoredItems(n) : n \in 0..MaxStored}}

\* the mount: the load effect, then the save effect
InitStore ==
  /\ loadedFrom \in StoredInputs
  /\ tasks = loadTasks(loadedFrom)
  /\ storage = JSONstringify(tasks)
  /\ nextId = MaxStored + 1
  /\ selectedTask = Null
  /\ isModalOpen = FALSE
  /\ dragSelection = NoSelection
  /\ isDragging = FALSE
  /\ draggedTask = Null
  /\ dragOffset = 0
  /\ hoveredDay = NoDay
  /\ resizingTask = Null
  /\ categoryFilters = categories
  /\ userFilters = Range(mockUsers)
  /\ timeFilter = "all"
  /\ currentDate = 7
  /\ now = 0
  /\ timeZone = "UTC"
  /\ anchorDay = NoDay
  /\ taskBars = <<>>
  /\ docListeners = <<>>
  /\ mount = Mounted

\* the page is reloaded: every state is initial again and the mount runs
Reload ==
  /\ loadedFrom' = storage
  /\ tasks' = loadTasks(storage)
  /\ storage' = JSONstringify(tasks')
  /\ selectedTask' = Null
  /\ isModalOpen' = FALSE
  /\ dragSelection' = NoSelection
  /\ isDragging' = FALSE
  /\ draggedTask' = Null
  /\ dragOffset' = 0
  /\ hoveredDay' = NoDay
  /\ resizingTask' = Null
  /\ UNCHANGED <<nextId, anchorDay, viewVars, barVars, mount>>

\* the ids the callbacks are addressed to (the last one is never in the
\* collection) and the updates they carry
StoreIds == 1..(MaxStored + 1)
StoreUpdates == {[endDate |-> 9]}

storeRest == <<nextId, dragSelection, isDragging, draggedTask, dragOffset, hoveredDay,
               resizingTask, loadedFrom, anchorDay, taskBars, docListeners, mount>>

\* onTaskUpdate and onTaskDelete, as the owner hands them out
OnTaskUpdate ==
  \E taskId \in StoreIds : \E updates \in StoreUpdates :
    /\ tasks' = updateTask(tasks, taskId, updates)
    /\ saveEffect
    /\ UNCHANGED <<selectedTask, isModalOpen, storeRest, viewVars>>

OnTaskDelete ==
  \E taskId \in StoreIds :
    /\ tasks' = deleteTask(tasks, taskId)
    /\ saveEffect
    /\ UNCHANGED <<selectedTask, isModalOpen, storeRest, viewVars>>

handleTaskEdit(task) ==
  /\ selectedTask' = task
  /\ isModalOpen' = TRUE

OnTaskEdit ==
  \E i \in 1..Len(tasks) :
    /\ ~isModalOpen
    /\ handleTaskEdit(tasks[i])
    /\ UNCHANGED <<tasks, storage, storeRest, viewVars>>

NextStore ==
  \/ Reload
  \/ OnTaskUpdate
  \/ OnTaskDelete
  \/ OnTaskEdit
  \/ ModalSave
  \/ ModalClose
  \/ ModalDelete

SpecStore == InitStore /\ [][NextStore]_vars

\* records of the versions in between: any of the three later fields may be
\* missing, each by itself
LaterFields == {"assignedUser", "priority", "color"}
partialRecord(id, startDate, endDate, missing) ==
  LET full == storedRecord(id, startDate, endDate, FALSE)
  IN [field \in (DOMAIN full) \ missing |-> full[field]]
PartialRecords(id) ==
  {partialRecord(id, d[1], d[2], missing) : d \in StoredDates, missing \in SUBSET LaterFields}
RECURSIVE PartialItems(_)
PartialItems(n) ==
  IF n = 0 THEN {<<>>}
  ELSE {Append(items, r) : items \in PartialItems(n - 1), r \in PartialRecords(n)}
PartialInputs == {[item |-> items] : items \in UNION {PartialItems(n) : n \in 1..MaxStored}}

\* the mount on such records
InitLoad ==
  /\ loadedFrom \in PartialInputs
  /\ tasks = loadTasks(loadedFrom)
  /\ storage = JSONstringify(tasks)
  /\ nextId = MaxStored + 1
  /\ selectedTask = Null
  /\ isModalOpen = FALSE
  /\ dragSelection = NoSelection
  /\ isDragging = FALSE
  /\ draggedTask = Null
  /\ dragOffset = 0
  /\ hoveredDay = NoDay
  /\ resizingTask = Null
  /\ categoryFilters = categories
  /\ userFilters = Range(mockUsers)
  /\ timeFilter = "all"
  /\ currentDate = 7
  /\ now = 0
  /\ timeZone = "UTC"
  /\ anchorDay = NoDay
  /\ taskBars = <<>>
  /\ docListeners = <<>>
  /\ mount = Mounted

\* the page is loaded, and loaded again from what the mount saved
NextLoad == Reload

SpecLoad == InitLoad /\ [][NextLoad]_vars

(* ---- TaskPlanner: the mount, effect by effect ---- *)
\* The first render has tasks = [] (useState) and storage as the last session
\* left it.  The effects of a render run in the order they are declared, the
\* load effect before the save effect; setTasks in an effect queues a render,
\* which is followed by the save effect, tasks having changed.
InitStartup ==
  /\ storage \in StoredInputs
  /\ loadedFrom = storage
  /\ tasks = <<>>
  /\ mount = [pc |-> "rendered", pending |-> <<>>]
  /\ nextId = MaxStored + 1
  /\ selectedTask = Null
  /\ isModalOpen = FALSE
  /\ dragSelection = NoSelection
  /\ isDragging = FALSE
  /\ draggedTask = Null
  /\ dragOffset = 0
  /\ hoveredDay = NoDay
  /\ resizingTask = Null
  /\ categoryFilters = categories
  /\ userFilters = Range(mockUsers)
  /\ timeFilter = "all"
  /\ currentDate = 7
  /\ now = 0
  /\ timeZone = "UTC"
  /\ anchorDay = NoDay
  /\ taskBars = <<>>
  /\ docListeners = <<>>

startupRest == <<nextId, selectedTask, isModalOpen, dragSelection, isDragging,
                 draggedTask, dragOffset, hoveredDay, resizingTask, loadedFrom,
                 anchorDay, viewVars, barVars>>

\* the load effect: if (savedTasks) setTasks(parsedTasks)
mountLoadEffect ==
  /\ mount.pc = "rendered"
  /\ mount' = [pc |-> "loaded",
               pending |-> IF storage # Null THEN <<loadTasks(storage)>> ELSE <<>>]
  /\ UNCHANGED <<tasks, storage, startupRest>>

\* the save effect of the first render, whose tasks is []
mountSaveEffect ==
  /\ mount.pc = "loaded"
  /\ mount' = [mount EXCEPT !.pc = "saved"]
  /\ UNCHANGED tasks
  /\ saveEffect
  /\ UNCHANGED startupRest

\* the render that the queued setTasks brings about, if one was queued
mountRerender ==
  /\ mount.pc = "saved"
  /\ IF mount.pending # <<>>
       THEN /\ tasks' = mount.pending[1]
            /\ mount' = [pc |-> "rerendered", pending |-> <<>>]
       ELSE /\ UNCHANGED tasks
            /\ mount' = [mount EXCEPT !.pc = "done"]
  /\ UNCHANGED <<storage, startupRest>>

\* a save effect that runs at the first render only
mountSaveAgainSkipped ==
  /\ mount.pc = "rerendered"
  /\ mount' = [mount EXCEPT !.pc = "done"]
  /\ UNCHANGED <<tasks, storage, startupRest>>

\* the save effect of that render: tasks is another array than at the first one
mountSaveAgain ==
  /\ mount.pc = "rerendered"
  /\ mount' = [mount EXCEPT !.pc = "done"]
  /\ UNCHANGED tasks
  /\ saveEffect
  /\ UNCHANGED startupRest

NextStartup ==
  \/ mountLoadEffect
  \/ mountSaveEffect
  \/ mountRerender
  \/ mountSaveAgain

SpecStartup == InitStartup /\ [][NextStartup]_vars

(***************************************************************************)
(* TaskBar: a bar that moves and resizes its task by itself, through       *)
(* listeners it adds to the document.  Calendar renders TaskStrip and      *)
(* mounts no TaskBar; here bars are mounted on their own, one per task,    *)
(* over the owner's collection.                                            *)
(***************************************************************************)
\* at most MaxBars bars are mounted
MaxBars == 2
BarIds == 1..MaxBars
\* a bar's box: getBoundingClientRect() has left = 0 and this width
BarWidth == 150
\* the margin of isLeftEdge and isRightEdge, and handleMouseMove's dayWidth
EdgeMargin == 8
dayWidth == 150
\* clientX of the pointer-downs on a bar, and of the pointer-moves
DownXs == {4, 75, 146}
MoveXs == {-75, 225}
\* the dates the bars' tasks are kept within
BarDays == 7..8

NotResizing == "null"

barTask(b) ==
  [id |-> b, name |-> "task", category |-> "To Do",
   startDate |-> 7, endDate |-> 7 + (b % 2),
   assignedUser |-> "John Doe", priority |-> "P1", color |-> "blue"]

\* a bar as mounted: useState's initial values (of dragStart, x alone is read)
newBar(day) ==
  [mounted |-> TRUE, day |-> day, isDragging |-> FALSE, isResizing |-> NotResizing,
   dragStart |-> 0]
NoBar ==
  [mounted |-> FALSE, day |-> NoDay, isDragging |-> FALSE, isResizing |-> NotResizing,
   dragStart |-> 0]

isFirstDay(b) == TaskIn(tasks, b).startDate = taskBars[b].day
isLastDay(b) == TaskIn(tasks, b).endDate = taskBars[b].day

\* the listeners of the document that bar b added
listenersOf(ls, b) == SelectSeq(ls, LAMBDA l : l.bar = b)
withoutBar(ls, b) == SelectSeq(ls, LAMBDA l : l.bar # b)

\* the two listeners the effect adds: handleMouseMove and handleMouseUp of the
\* render the effect belongs to, with what they close over
listenerPair(b, bar, task) ==
  LET closure == [isDragging |-> bar.isDragging, isResizing |-> bar.isResizing,
                  dragStart |-> bar.dragStart, task |-> task]
  IN << [type |-> "mousemove", bar |-> b, closure |-> closure],
        [type |-> "mouseup", bar |-> b, closure |-> closure] >>

\* useEffect without the cleanup it returns
listenersEffectNoCleanup(ls, b, before, after, task) ==
  IF <<before.isDragging, before.isResizing>> = <<after.isDragging, after.isResizing>>
    THEN ls
    ELSE IF after.isDragging \/ after.isResizing # NotResizing
      THEN ls \o listenerPair(b, after, task)
      ELSE ls

\* useEffect(..., [isDragging, isResizing]) after a render of bar b: when a
\* dependency has changed, the cleanup of the last run, then the effect
listenersEffect(ls, b, before, after, task) ==
  IF <<before.isDragging, before.isResizing>> = <<after.isDragging, after.isResizing>>
    THEN ls
    ELSE IF after.isDragging \/ after.isResizing # NotResizing
      THEN withoutBar(ls, b) \o listenerPair(b, after, task)
      ELSE withoutBar(ls, b)

\* TaskBar.handleMouseDown at clientX = x
barMouseDown(bar, b, x) ==
  LET clickX == x - 0
      leftEdge == clickX < EdgeMargin
      rightEdge == clickX > BarWidth - EdgeMargin
  IN IF leftEdge /\ isFirstDay(b)
       THEN [bar EXCEPT !.isResizing = "left"]
       ELSE IF rightEdge /\ isLastDay(b)
         THEN [bar EXCEPT !.isResizing = "right"]
         ELSE [bar EXCEPT !.isDragging = TRUE, !.dragStart = x]

\* Math.round(a / b), b > 0: halves go up
mathRound(a, b) == (2 * a + b) \div (2 * b)

\* what one handleMouseMove hands to onTaskUpdate, or Null
moveUpdates(closure, x) ==
  LET deltaX == x - closure.dragStart
      daysMoved == mathRound(deltaX, dayWidth)
      task == closure.task
  IN IF daysMoved = 0 THEN Null
     ELSE IF closure.isDragging
       THEN [startDate |-> task.startDate + daysMoved,
             endDate |-> task.endDate + daysMoved]
     ELSE IF closure.isResizing = "left"
       THEN IF task.startDate + daysMoved <= task.endDate
              THEN [startDate |-> task.startDate + daysMoved] ELSE Null
     ELSE IF closure.isResizing = "right"
       THEN IF task.endDate + daysMoved >= task.startDate
              THEN [endDate |-> task.endDate + daysMoved] ELSE Null
     ELSE Null

\* does this handleMouseMove call setDragStart
movesDragStart(closure, x) ==
  /\ mathRound(x - closure.dragStart, dayWidth) # 0
  /\ closure.isDragging \/ closure.isResizing # NotResizing

\* the document dispatches a mousemove: the listeners run in the order they
\* were added
RECURSIVE dispatchMove(_, _, _, _)
dispatchMove(ls, i, x, state) ==
  IF i > Len(ls) THEN state
  ELSE IF ls[i].type # "mousemove" THEN dispatchMove(ls, i + 1, x, state)
  ELSE
    LET l == ls[i]
        u == moveUpdates(l.closure, x)
    IN dispatchMove(ls, i + 1, x,
         [tasks |-> IF u = Null THEN state.tasks
                    ELSE updateTask(state.tasks, l.closure.task.id, u),
          bars |-> IF movesDragStart(l.closure, x)
                     THEN [state.bars EXCEPT ![l.bar].dragStart = x]
                     ELSE state.bars])

\* ... and a mouseup: each handleMouseUp clears its bar's flags
RECURSIVE dispatchUp(_, _, _)
dispatchUp(ls, i, bars) ==
  IF i > Len(ls) THEN bars
  ELSE IF ls[i].type # "mouseup" THEN dispatchUp(ls, i + 1, bars)
  ELSE dispatchUp(ls, i + 1,
         [bars EXCEPT ![ls[i].bar].isDragging = FALSE,
                      ![ls[i].bar].isResizing = NotResizing])

\* the effects of all bars after a render
RECURSIVE runEffects(_, _, _, _, _)
runEffects(ls, b, before, after, coll) ==
  IF b > MaxBars THEN ls
  ELSE runEffects(
         IF after[b].mounted
           THEN listenersEffect(ls, b, before[b], after[b], TaskIn(coll, b))
           ELSE ls,
         b + 1, before, after, coll)

barRest == <<nextId, selectedTask, isModalOpen, dragSelection, isDragging, draggedTask,
             dragOffset, hoveredDay, resizingTask, loadedFrom, anchorDay, viewVars, mount>>

InitTaskBar ==
  /\ tasks = [b \in BarIds |-> barTask(b)]
  /\ taskBars = [b \in BarIds |-> NoBar]
  /\ docListeners = <<>>
  /\ mount = Mounted
  /\ storage = JSONstringify(tasks)
  /\ loadedFrom = storage
  /\ nextId = MaxBars + 1
  /\ selectedTask = Null
  /\ isModalOpen = FALSE
  /\ dragSelection = NoSelection
  /\ isDragging = FALSE
  /\ draggedTask = Null
  /\ dragOffset = 0
  /\ hoveredDay = NoDay
  /\ resizingTask = Null
  /\ categoryFilters = categories
  /\ userFilters = Range(mockUsers)
  /\ timeFilter = "all"
  /\ currentDate = 7
  /\ now = 0
  /\ timeZone = "UTC"
  /\ anchorDay = NoDay

\* a bar is mounted for a task on one of its days
BarMount ==
  \E b \in BarIds : \E day \in BarDays :
    /\ ~taskBars[b].mounted
    /\ day >= TaskIn(tasks, b).startDate /\ day <= TaskIn(tasks, b).endDate
    /\ taskBars' = [taskBars EXCEPT ![b] = newBar(day)]
    /\ UNCHANGED <<tasks, storage, docListeners, barRest>>

\* a bar is unmounted: the cleanup of its effect runs
BarUnmount ==
  \E b \in BarIds :
    /\ taskBars[b].mounted
    /\ taskBars' = [taskBars EXCEPT ![b] = NoBar]
    /\ docListeners' = listenersEffect(docListeners, b, taskBars[b], NoBar, Null)
    /\ UNCHANGED <<tasks, storage, barRest>>

BarMouseDown ==
  \E b \in BarIds : \E x \in DownXs :
    /\ taskBars[b].mounted
    /\ taskBars' = [taskBars EXCEPT ![b] = barMouseDown(taskBars[b], b, x)]
    /\ docListeners' = runEffects(docListeners, 1, taskBars, taskBars', tasks)
    /\ UNCHANGED <<tasks, storage, barRest>>

DocMouseMove ==
  \E x \in MoveXs :
    LET after == dispatchMove(docListeners, 1, x, [tasks |-> tasks, bars |-> taskBars])
    IN /\ docListeners # <<>>
       /\ \A i \in 1..Len(after.tasks) :
            after.tasks[i].startDate \in BarDays /\ after.tasks[i].endDate \in BarDays
       /\ tasks' = after.tasks
       /\ taskBars' = after.bars
       /\ docListeners' = runEffects(docListeners, 1, taskBars, taskBars', tasks')
       /\ saveEffect
       /\ UNCHANGED barRest

DocMouseUp ==
  /\ docListeners # <<>>
  /\ taskBars' = dispatchUp(docListeners, 1, taskBars)
  /\ docListeners' = runEffects(docListeners, 1, taskBars, taskBars', tasks)
  /\ UNCHANGED <<tasks, storage, barRest>>

NextTaskBar ==
  \/ BarMount
  \/ BarUnmount
  \/ BarMouseDown
  \/ DocMouseMove
  \/ DocMouseUp

SpecTaskBar == InitTaskBar /\ [][NextTaskBar]_vars

(***************************************************************************)
(* The page mounted on a stored collection of two tasks: the same events,  *)
(* with a second task beside the one the pointer reaches, on the two days  *)
(* before the days the pointer visits.                                     *)
(***************************************************************************)
MountedTasks ==
  << [id |-> MaxId + 1, name |-> "first", category |-> "To Do",
      startDate |-> DaysPerWeek, endDate |-> DaysPerWeek + 1,
      assignedUser |-> "John Doe", priority |-> "P1", color |-> "blue"],
     [id |-> MaxId + 2, name |-> "second", category |-> "Review",
      startDate |-> DaysPerWeek - DaysBefore - 1, endDate |-> DaysPerWeek - DaysBefore,
      assignedUser |-> "Jane Smith", priority |-> "P2", color |-> "teal"] >>

\* the mount, but for the ids generateId has still to hand out
mountedState ==
  /\ tasks = MountedTasks
  /\ storage = JSONstringify(tasks)
  /\ loadedFrom = storage
  /\ selectedTask = Null
  /\ isModalOpen = FALSE
  /\ dragSelection = NoSelection
  /\ isDragging = FALSE
  /\ draggedTask = Null
  /\ dragOffset = 0
  /\ hoveredDay = NoDay
  /\ resizingTask = Null
  /\ categoryFilters = categories
  /\ userFilters = Range(mockUsers)
  /\ timeFilter = "all"
  /\ currentDate = 7
  /\ now = 0
  /\ timeZone = "UTC"
  /\ anchorDay = NoDay
  /\ taskBars = <<>>
  /\ docListeners = <<>>
  /\ mount = Mounted

\* no task is created
InitMounted == mountedState /\ nextId = MaxId + 1

\* the pointer's events, and the form closed without a save
NextMounted ==
  \/ MouseDown
  \/ MouseEnter
  \/ MouseUp
  \/ MouseLeave
  \/ StripMouseDown
  \/ ModalClose

SpecMounted == InitMounted /\ [][NextMounted]_vars

\* the same mount with the ids 1 .. MaxId still to hand out: ranges are
\* selected and the form is saved or closed
InitSelect == mountedState /\ nextId = 1

NextSelect ==
  \/ MouseDown
  \/ MouseEnter
  \/ MouseUp
  \/ MouseLeave
  \/ ModalSave
  \/ ModalClose

SpecSelect == InitSelect /\ [][NextSelect]_vars

(* ---- TaskStrip.handleMouseDown, from the pointer's pixel ---- *)
\* the strip spans its day columns of the week row; a column's width in pixels
\* on the narrowest and on a wide layout
DayColumnWidths == {43, 150}
StripMargin == 10
rectWidth(columns, columnWidth) == columns * columnWidth

\* clickX < 10 and clickX > rect.width - 10
stripPart(clickX, width) ==
  IF clickX < StripMargin THEN "leftMargin"
  ELSE IF clickX > width - StripMargin THEN "rightMargin"
  ELSE "middle"

\* Math.floor((clickX / rect.width) * 7): the share taken of the whole week row
clickedDayIndexOfWeek(clickX, width, columns) == (clickX * DaysPerWeek) \div width

\* Math.floor((clickX / rect.width) * (endDayIndex - startDayIndex + 1))
clickedDayIndex(clickX, width, columns) == (clickX * columns) \div width

\* the pixels tried in each day column: its first and last, and those on either
\* side of where a margin would end or begin
ColumnPixels(columnWidth) ==
  {0, StripMargin - 1, StripMargin,
   columnWidth - StripMargin, columnWidth - StripMargin + 1, columnWidth - 1}
ClickXs(columns, columnWidth) ==
  {c * columnWidth + p : c \in 0..(columns - 1), p \in ColumnPixels(columnWidth)}

\* handleMouseDown with e.clientX - rect.left = clickX on a strip rect.width
\* wide; the pointer is over a day it visits
TaskStripMouseDownAt(task, weekStart, clickX, columnWidth) ==
  LET columns == endDayIndex(task, weekStart) - startDayIndex(task, weekStart) + 1
      width == rectWidth(columns, columnWidth)
      clickedDay == taskStart(task, weekStart) + clickedDayIndex(clickX, width, columns)
  IN /\ ~isModalOpen
     /\ startDayIndex(task, weekStart) # -1 /\ endDayIndex(task, weekStart) # -1
     /\ clickX \in 0..(width - 1)
     /\ taskStart(task, weekStart) + clickX \div columnWidth \in Days
     /\ IF stripPart(clickX, width) = "leftMargin"
             /\ taskStart(task, weekStart) = task.startDate
          THEN handleTaskResizeStart(task, "left")
          ELSE IF stripPart(clickX, width) = "rightMargin"
                    /\ taskEnd(task, weekStart) = task.endDate
            THEN handleTaskResizeStart(task, "right")
            ELSE handleTaskDragStart(task, clickedDay)

StripMouseDownAt ==
  \E weekStart \in WeekStarts : \E i \in 1..Len(getTasksForWeek(weekStart)) :
    LET task == getTasksForWeek(weekStart)[i]
        columns == endDayIndex(task, weekStart) - startDayIndex(task, weekStart) + 1
    IN \E columnWidth \in DayColumnWidths :
         \E clickX \in ClickXs(columns, columnWidth) :
           /\ TaskStripMouseDownAt(task, weekStart, clickX, columnWidth)
           /\ saveEffect /\ UNCHANGED <<anchorDay, viewVars, loadedFrom, barVars, mount>>

\* the mounted tasks dragged and resized, the pointer-downs on a strip taken at
\* their pixel
NextPixel ==
  \/ MouseEnter
  \/ MouseUp
  \/ MouseLeave
  \/ StripMouseDownAt

SpecPixel == InitMounted /\ [][NextPixel]_vars

(***************************************************************************)
(* Properties                                                              *)
(***************************************************************************)
Duration(t) == t.endDate - t.startDate

\* a drag with no resize in progress on top of it, and conversely
OnlyDragging == draggedTask # Null /\ resizingTask = Null
OnlyResizing == resizingTask # Null /\ draggedTask = Null

\* the hovered day lies beyond the opposite boundary of the resized edge
wouldInvert(task, mode, day) ==
  \/ (mode = "right" /\ day < task.startDate)
  \/ (mode = "left" /\ day > task.endDate)

\* C1: whatever pointer events and form operations have happened, every task of
\* the collection has startDate <= endDate.
C1_StartNotAfterEnd ==
  \A i \in 1..Len(tasks) : tasks[i].startDate <= tasks[i].endDate

\* a resize has shrunk a task of several days to a single day
C1_Witness ==
  /\ resizingTask # Null
  /\ resizingTask.task.startDate < resizingTask.task.endDate
  /\ \E t \in Range(tasks) : t.id = resizingTask.task.id /\ t.startDate = t.endDate

\* C2: while a task is being resized it never has startDate > endDate, and a
\* pointer-enter on a day that would invert it (beyond the opposite boundary)
\* leaves the collection as it was.
C2_ResizeNeverInverts ==
  /\ [](resizingTask # Null =>
          \A t \in Range(tasks) :
            t.id = resizingTask.task.id => t.startDate <= t.endDate)
  /\ [][\A day \in Days :
          ( /\ handleMouseEnter(day)
            /\ resizingTask # Null
            /\ HasTask(resizingTask.task.id)
            /\ wouldInvert(TaskIn(tasks, resizingTask.task.id), resizingTask.mode, day) )
          => tasks' = tasks]_vars

\* a resize moved the edge, and then the pointer entered a day beyond the
\* opposite boundary: the task still has the dates of the accepted step
C2_Witness ==
  /\ resizingTask # Null
  /\ hoveredDay # NoDay
  /\ \E t \in Range(tasks) :
       /\ t.id = resizingTask.task.id
       /\ wouldInvert(t, resizingTask.mode, hoveredDay)
       /\ t.startDate <= t.endDate
       /\ IF resizingTask.mode = "right"
            THEN t.endDate # resizingTask.originalDate
            ELSE t.startDate # resizingTask.originalDate

\* C3: while a task is dragged (and not resized at the same time) its
\* endDate - startDate is the one it had at the pointer-down, in every state up
\* to and including the one the release leaves.
C3_DragKeepsDuration ==
  /\ [](OnlyDragging =>
          \A t \in Range(tasks) :
            t.id = draggedTask.id => Duration(t) = Duration(draggedTask))
  /\ [][( /\ handleMouseUp
          /\ OnlyDragging
          /\ HasTask(draggedTask.id) )
        => /\ \E t \in Range(tasks') : t.id = draggedTask.id
           /\ Duration(TaskIn(tasks', draggedTask.id))
                = Duration(TaskIn(tasks, draggedTask.id))]_vars

\* a task of several days, grabbed away from its first day, is about to be
\* released over a day that moves it
C3_Witness ==
  /\ OnlyDragging
  /\ HasTask(draggedTask.id)
  /\ Duration(draggedTask) > 0
  /\ dragOffset > 0
  /\ hoveredDay # NoDay
  /\ hoveredDay - dragOffset # TaskIn(tasks, draggedTask.id).startDate
  /\ DropInBounds

\* the dates a release over targetDay gives a task of dates [s, e] grabbed at
\* offset k: [targetDay - k, targetDay - k + (e - s)]
movedTo(t, task, k, targetDay) ==
  /\ t.startDate = targetDay - k
  /\ t.endDate = (targetDay - k) + (task.endDate - task.startDate)

resizedEdge(t, mode) == IF mode = "right" THEN t.endDate ELSE t.startDate
otherEdge(t, mode) == IF mode = "right" THEN t.startDate ELSE t.endDate

\* C6: in a resize (with no drag on top of it) a pointer-enter on a day that
\* passes the guard sets the resized boundary to that day, one that fails it
\* changes nothing, and the pointer-up or the leave that ends the gesture
\* changes no date: the boundary stays where the last accepted day put it and
\* is not put back to its value at the pointer-down.
C6_ResizeStands ==
  [][ /\ \A day \in Days :
           ( /\ handleMouseEnter(day)
             /\ OnlyResizing
             /\ HasTask(resizingTask.task.id) )
           => LET before == TaskIn(tasks, resizingTask.task.id)
                  after == TaskIn(tasks', resizingTask.task.id)
              IN /\ resizedEdge(after, resizingTask.mode) =
                      IF wouldInvert(before, resizingTask.mode, day)
                        THEN resizedEdge(before, resizingTask.mode)
                        ELSE day
                 /\ otherEdge(after, resizingTask.mode) = otherEdge(before, resizingTask.mode)
      /\ ((handleMouseUp \/ onMouseLeave) /\ OnlyResizing)
         => (tasks' = tasks /\ resizingTask' = Null) ]_vars

\* a resize has moved the boundary away from its value at the pointer-down and
\* the gesture can end
C6_Witness ==
  /\ OnlyResizing
  /\ \E t \in Range(tasks) :
       /\ t.id = resizingTask.task.id
       /\ resizedEdge(t, resizingTask.mode) # resizingTask.originalDate
       /\ resizedEdge(t, resizingTask.mode) = hoveredDay
  /\ ENABLED onMouseLeave
  /\ ENABLED handleMouseUp

\* C7: a task of dates [s, e] in the collection, dragged with offset k and
\* released over day D, gets startDate = D - k and endDate = (D - k) + (e - s).
C7_DropDates ==
  [][( /\ handleMouseUp
       /\ OnlyDragging
       /\ hoveredDay # NoDay
       /\ HasTask(draggedTask.id) )
     => /\ dragOffset >= 0
        /\ movedTo(TaskIn(tasks', draggedTask.id), TaskIn(tasks, draggedTask.id),
                   dragOffset, hoveredDay)
        /\ Len(tasks') = Len(tasks) ]_vars

\* the scenario's shape: a task of two days or more, grabbed one day after its
\* start, over a day from which the release moves it
C7_Witness ==
  /\ OnlyDragging
  /\ HasTask(draggedTask.id)
  /\ Duration(TaskIn(tasks, draggedTask.id)) >= 1
  /\ dragOffset = 1
  /\ hoveredDay # NoDay
  /\ hoveredDay - 1 > TaskIn(tasks, draggedTask.id).startDate
  /\ ENABLED handleMouseUp

\* a range selection with no task dragged or resized on top of it
OnlySelecting == isDragging /\ draggedTask = Null /\ resizingTask = Null

\* C8 (checked under SpecAnchor): in a selection begun by a pointer-down on day
\* A, once the pointer has last entered day D the selected range is
\* [min(A, D), max(A, D)]; before any pointer-enter it is [A, A].
C8_RangeFromAnchor ==
  (OnlySelecting /\ anchorDay # NoDay /\ dragSelection.startDate # NoDay) =>
    LET D == IF hoveredDay = NoDay THEN anchorDay ELSE hoveredDay
    IN /\ dragSelection.startDate = Min2(anchorDay, D)
       /\ dragSelection.endDate = Max2(anchorDay, D)

\* the step in which handleMouseUp calls onDragSelection: the modal opens on a
\* task without id that carries the range
rangeCommitted ==
  /\ ~isModalOpen /\ isModalOpen'
  /\ selectedTask' # Null /\ selectedTask'.id = NoId

\* C9: a pointer-up commits a range exactly when it ends a selection (and no
\* task is dragged or resized): the range is the selection's current
\* [startDate, endDate], the selection is over afterwards so that a second
\* pointer-up commits nothing, and neither a pointer-up in any other state nor
\* the pointer leaving the grid container commits one.
C9_CommitOnlyBySelectionRelease ==
  [][ /\ handleMouseUp =>
           /\ rangeCommitted <=> (OnlySelecting /\ dragSelection.startDate # NoDay)
           /\ rangeCommitted =>
                /\ selectedTask'.startDate = dragSelection.startDate
                /\ selectedTask'.endDate = dragSelection.endDate
                /\ dragSelection' = [dragSelection EXCEPT !.isSelecting = FALSE]
                /\ ~isDragging'
      /\ onMouseLeave => ~rangeCommitted
      /\ rangeCommitted => OnlySelecting ]_vars

\* a range of several days has just been committed
C9_Witness ==
  /\ isModalOpen
  /\ selectedTask # Null /\ selectedTask.id = NoId
  /\ selectedTask.startDate < selectedTask.endDate
  /\ dragSelection = [startDate |-> selectedTask.startDate,
                      endDate |-> selectedTask.endDate, isSelecting |-> FALSE]
  /\ ~isDragging

\* C10: at most one of Selecting (isDragging), DraggingTask (draggedTask set)
\* and ResizingTask (resizingTask set) holds.
C10_AtMostOneGesture ==
  /\ ~(isDragging /\ draggedTask # Null)
  /\ ~(isDragging /\ resizingTask # Null)
  /\ ~(draggedTask # Null /\ resizingTask # Null)

\* no gesture is active
Idle == ~isDragging /\ draggedTask = Null /\ resizingTask = Null

\* C11: a pointer-up in the grid and the pointer leaving the grid container
\* each end the gesture, whichever it is: afterwards nothing is selected by
\* dragging, no task is dragged and none is resized.  In every gesture state the
\* leave can happen (and the release too).  From then on a pointer-enter
\* changes no task, and only a pointer-down (on a cell or on a task strip)
\* starts a gesture again.
C11_ReleaseEndsGesture ==
  /\ [](~Idle => (ENABLED onMouseLeave /\ (DropInBounds => ENABLED handleMouseUp)))
  /\ [][ /\ (handleMouseUp \/ onMouseLeave) => Idle'
         /\ (Idle /\ \E day \in Days : handleMouseEnter(day)) => (tasks' = tasks /\ Idle')
         /\ (Idle /\ ~Idle') => (MouseDown \/ StripMouseDown) ]_vars

\* a drag has ended and the pointer has entered a day since
C11_Witness ==
  /\ Idle
  /\ dragOffset > 0
  /\ hoveredDay # NoDay
  /\ tasks # <<>>
  /\ ~isModalOpen

\* C12: for every task and every week row that shows a segment of it, a
\* pointer-down in the margin of a segment end that the week clips (the task
\* goes on in the neighbouring week) starts a drag and no resize; a resize
\* starts only from the left margin of the task's true start (mode left) or
\* from the right margin of its true end (mode right).  (A pointer-down on a
\* strip happens with the modal closed, leaves the collection, the selection
\* flag and the hovered day alone and changes the dragged task, the offset or
\* the resized task: other steps are passed over.)
C12_ResizeOnlyAtTrueEdge ==
  [][( /\ ~isModalOpen
       /\ UNCHANGED <<tasks, isDragging, hoveredDay, isModalOpen>>
       /\ <<draggedTask, dragOffset, resizingTask>>' # <<draggedTask, dragOffset, resizingTask>> ) =>
     \A weekStart \in WeekStarts : \A i \in 1..Len(getTasksForWeek(weekStart)) :
       LET task == getTasksForWeek(weekStart)[i]
           weekEnd == weekStart + DaysPerWeek - 1
           lastCol == Min2(task.endDate, weekEnd) - Max2(task.startDate, weekStart)
           leftClipped == task.startDate < weekStart
           rightClipped == task.endDate > weekEnd
           startsResize(mode) == /\ resizingTask' # Null
                                 /\ resizingTask'.task = task
                                 /\ resizingTask'.mode = mode
                                 /\ draggedTask' = draggedTask
       IN \A col \in 0..lastCol : \A part \in ClickParts :
            LET atLeftMargin == col = 0 /\ part = "leftMargin"
                atRightMargin == col = lastCol /\ part = "rightMargin"
                startsDrag ==
                  /\ draggedTask' = task
                  /\ dragOffset' = Max2(task.startDate, weekStart) + col - task.startDate
                  /\ resizingTask' = resizingTask
            IN TaskStripMouseDown(task, weekStart, col, part) =>
                 /\ (atLeftMargin /\ leftClipped) => startsDrag
                 /\ (atRightMargin /\ rightClipped) => startsDrag
                 /\ (atLeftMargin /\ ~leftClipped) => startsResize("left")
                 /\ (atRightMargin /\ ~rightClipped) => startsResize("right")
                 /\ (~atLeftMargin /\ ~atRightMargin) => startsDrag ]_vars

\* a task split across the two week rows has been grabbed by the first day of
\* its second segment, whose left end is week-clipped: it is dragged, not resized
C12_Witness ==
  /\ draggedTask # Null
  /\ resizingTask = Null
  /\ \E weekStart \in WeekStarts :
       /\ draggedTask.startDate < weekStart
       /\ draggedTask.endDate >= weekStart
       /\ dragOffset = weekStart - draggedTask.startDate

\* the window of a time filter, in days
windowDays(filter) ==
  IF filter = "1week" THEN 7 ELSE IF filter = "2weeks" THEN 14 ELSE 21

\* C13 (checked under SpecView): a task is visible iff its category is active,
\* its assignee is active, and the time filter is "all" or the signed distance
\* from now to its startDate is at most 7, 14 or 21 days (a day is 24 hours).
C13_VisibleByDayDistance ==
  \A i \in 1..Len(tasks) :
    taskFilter(tasks[i]) <=>
      /\ tasks[i].category \in categoryFilters
      /\ tasks[i].assignedUser \in userFilters
      /\ \/ timeFilter = "all"
         \/ getTime(tasks[i].startDate) - now <= windowDays(timeFilter) * HoursPerDay

\* C14 (checked under SpecView): under each of the three windows, a task whose
\* startDate is at or before now, with its category and its assignee active, is
\* visible, however long ago it started.
C14_PastTasksVisible ==
  \A i \in 1..Len(tasks) :
    ( /\ getTime(tasks[i].startDate) <= now
      /\ tasks[i].category \in categoryFilters
      /\ tasks[i].assignedUser \in userFilters )
    => taskFilter(tasks[i])

\* the narrowest window is on and shows a task that started more than 21 days ago
C14_Witness ==
  /\ timeFilter = "1week"
  /\ \E i \in 1..Len(tasks) :
       /\ getTime(tasks[i].startDate) + 21 * HoursPerDay < now
       /\ taskFilter(tasks[i])

\* C16 (checked under SpecGrid): whatever the anchor date, the grid is a run
\* of consecutive days from a Sunday to a Saturday, its length is a multiple of
\* 7, the week rows are its successive groups of exactly 7 days, every day of
\* the anchor month is in it, the first row holds the month's 1st and the last
\* row the month's last day, so that there are 4 to 6 rows; when the 1st is a
\* Wednesday the grid begins three days before it.
C16_GridWholeWeeks ==
  LET n == Len(days)
      rows == Len(weeks)
  IN /\ n > 0
     /\ \A i \in 1..(n - 1) : days[i + 1] = days[i] + 1
     /\ getDay(days[1]) = 0
     /\ getDay(days[n]) = 6
     /\ n % 7 = 0
     /\ rows * 7 = n
     /\ \A w \in 1..rows :
          /\ Len(weeks[w]) = 7
          /\ \A j \in 1..7 : weeks[w][j] = days[7 * (w - 1) + j]
     /\ \A d \in monthStart..monthEnd : d \in Range(days)
     /\ getDate(monthStart) = 1
     /\ getMonthIndex(monthEnd + 1) = getMonthIndex(currentDate) + 1
     /\ monthStart \in Range(weeks[1])
     /\ monthEnd \in Range(weeks[rows])
     /\ rows \in 4..6
     /\ getDay(monthStart) = 3 => (days[1] = monthStart - 3 /\ days[4] = monthStart)

\* the page has been navigated to a month whose 1st is a Wednesday: the first
\* row begins in the previous month and the last one ends in the next month
C16_Witness ==
  /\ getMonthIndex(currentDate) > 0
  /\ getDay(monthStart) = 3
  /\ days[1] < monthStart
  /\ days[Len(days)] > monthEnd

\* the week row beginning at weekStart shows a strip for the task
rendered(task, weekStart) ==
  /\ \E j \in 1..Len(getTasksForWeek(weekStart)) : getTasksForWeek(weekStart)[j] = task
  /\ startDayIndex(task, weekStart) # -1
  /\ endDayIndex(task, weekStart) # -1

\* the days of the strip
segmentDays(task, weekStart) == taskStart(task, weekStart)..taskEnd(task, weekStart)

\* C15 (checked under SpecView): for every visible task [s, e] of the grid, a
\* week row shows a segment of it iff [s, e] meets the week, the segment is
\* [max(s, weekStart), min(e, weekEnd)], the segments of two rows share no day,
\* and the segments of all rows together are exactly the days s .. e.
C15_SegmentsCoverTask ==
  \A i \in 1..Len(filteredTasks) :
    LET task == filteredTasks[i]
        rows == {weeks[w][1] : w \in 1..Len(weeks)}
        shown == {ws \in rows : rendered(task, ws)}
    IN /\ \A ws \in rows :
            rendered(task, ws) <=>
              (task.startDate <= ws + DaysPerWeek - 1 /\ task.endDate >= ws)
       /\ \A ws \in shown :
            segmentDays(task, ws) =
              Max2(task.startDate, ws)..Min2(task.endDate, ws + DaysPerWeek - 1)
       /\ \A ws1 \in shown : \A ws2 \in shown :
            ws1 # ws2 => segmentDays(task, ws1) \cap segmentDays(task, ws2) = {}
       /\ UNION {segmentDays(task, ws) : ws \in shown} = task.startDate..task.endDate

\* the taskIndex the week row hands to the task's strip (its lane; the strip's
\* top offset is 25 + taskIndex * 28 + taskIndex * 3)
taskIndex(task, weekStart) ==
  (CHOOSE j \in 1..Len(getTasksForWeek(weekStart)) : getTasksForWeek(weekStart)[j] = task) - 1

\* the visible tasks whose dates meet the week, in collection order
meetingWeek(weekStart) ==
  LET Meets(task) == task.startDate <= weekStart + DaysPerWeek - 1 /\ task.endDate >= weekStart
  IN SelectSeq(filteredTasks, Meets)

\* C17 (checked under SpecView): in every week row, the j-th (from 0) of the
\* visible tasks that meet the week, in collection order, is rendered in lane
\* j: the lanes of the row are 0 .. k-1, one task each, in collection order,
\* whether or not the tasks share a day.
C17_LaneIsPositionInWeek ==
  \A w \in 1..Len(weeks) :
    LET weekStart == weeks[w][1]
        expected == meetingWeek(weekStart)
    IN \A j \in 1..Len(expected) :
         /\ rendered(expected[j], weekStart)
         /\ taskIndex(expected[j], weekStart) = j - 1

\* C18 (checked under SpecStore): what the save effect has stored loads back
\* as the collection itself, the same tasks in the same order with the same
\* eight fields, so that a reload leaves the collection as it was.
C18_RoundTrip == loadTasks(JSONstringify(tasks)) = tasks

\* C19 (checked under SpecStore): a stored record whose startDate or endDate
\* cannot be parsed is left out by the load, so that no task of the collection
\* has an Invalid Date, and as many tasks are loaded as records are valid.
C19_UnparseableDropped ==
  /\ \A i \in 1..Len(tasks) : tasks[i].startDate # NaN /\ tasks[i].endDate # NaN
  /\ (loadedFrom # Null /\ tasks = loadTasks(loadedFrom)) =>
       Len(tasks) = Cardinality({i \in 1..Len(loadedFrom.item) :
                                   /\ newDate(loadedFrom.item[i].startDate) # NaN
                                   /\ newDate(loadedFrom.item[i].endDate) # NaN})

\* the modal shows a task that is no longer in the collection
staleEdit ==
  /\ isModalOpen
  /\ selectedTask # Null
  /\ selectedTask.id # NoId
  /\ ~HasTask(selectedTask.id)

\* C20 (checked under SpecStore): for an id that no task of the collection
\* has, updateTask and deleteTask return the collection as it is, the same
\* tasks in the same order; and saving (or deleting from) the edit form of a
\* task that has left the collection changes no task and adds none.
C20_MissingIdIsNoOp ==
  /\ [](\A taskId \in StoreIds :
          ~HasTask(taskId) =>
            /\ deleteTask(tasks, taskId) = tasks
            /\ \A updates \in StoreUpdates \cup FormOutputs :
                 updateTask(tasks, taskId, updates) = tasks)
  /\ [][ /\ (staleEdit /\ \E form \in FormOutputs : handleModalSave(form))
              => (tasks' = tasks /\ ~isModalOpen')
         /\ (staleEdit /\ handleDelete) => tasks' = tasks ]_vars

\* the form is open on a task that was deleted meanwhile, and another task is
\* still in the collection
C20_Witness ==
  /\ staleEdit
  /\ tasks # <<>>
  /\ ENABLED handleModalSave(OtherForm)

\* bar b is in a gesture of its own
barGesture(b) == taskBars[b].isDragging \/ taskBars[b].isResizing # NotResizing

storedAs(record, task) ==
  /\ DOMAIN record = DOMAIN task
  /\ \A f \in DOMAIN task \ {"startDate", "endDate"} : record[f] = task[f]
  /\ record.startDate = toJSON(task.startDate)
  /\ record.endDate = toJSON(task.endDate)

\* C22: in every state between two events the stored collection is the
\* in-memory one, as many records as tasks, the i-th record saying what the
\* i-th task says; so after each create, drop, resize step, edit-save and
\* delete the collection then in memory is the one in storage, and loading it
\* gives that collection back.
C22_StoredIsInMemory ==
  /\ [](/\ storage # Null
        /\ Len(storage.item) = Len(tasks)
        /\ \A i \in 1..Len(tasks) : storedAs(storage.item[i], tasks[i]))
  /\ [][tasks' # tasks =>
          /\ Len(storage'.item) = Len(tasks')
          /\ \A i \in 1..Len(tasks') : storedAs(storage'.item[i], tasks'[i])
          /\ storage' # storage
          /\ loadTasks(storage') = tasks' ]_vars

\* a created task has been renamed by an edit-save and then moved or resized
C22_Witness ==
  /\ tasks # <<>>
  /\ tasks[1].name = "renamed"
  /\ tasks[1].startDate # tasks[1].endDate
  /\ storage.item[1].name = "renamed"
  /\ resizingTask # Null

\* C23: while a task is resized, the opposite boundary the guard reads (that of
\* the task as grabbed) is the one the task has in the collection; a
\* pointer-enter on a day D that is not beyond that boundary (right edge:
\* D >= startDate, left edge: D <= endDate) sets the resized boundary to D and
\* leaves the opposite one as it was, the day of the opposite boundary itself
\* included, which makes the task a single day; it never gets start > end.
C23_GuardReadsCurrentBoundary ==
  /\ []((resizingTask # Null /\ HasTask(resizingTask.task.id)) =>
          otherEdge(resizingTask.task, resizingTask.mode)
            = otherEdge(TaskIn(tasks, resizingTask.task.id), resizingTask.mode))
  /\ [][\A day \in Days :
          ( /\ handleMouseEnter(day)
            /\ resizingTask # Null
            /\ HasTask(resizingTask.task.id) )
          => LET mode == resizingTask.mode
                 before == TaskIn(tasks, resizingTask.task.id)
                 after == TaskIn(tasks', resizingTask.task.id)
                 passes == IF mode = "right" THEN day >= before.startDate
                                             ELSE day <= before.endDate
             IN /\ passes => resizedEdge(after, mode) = day
                /\ otherEdge(after, mode) = otherEdge(before, mode)
                /\ (passes /\ day = otherEdge(before, mode))
                     => after.startDate = after.endDate
                /\ after.startDate <= after.endDate
                /\ Len(tasks') = Len(tasks) ]_vars

\* the left edge of a task of several days has been pulled onto its last day
C23_Witness ==
  /\ resizingTask # Null
  /\ resizingTask.mode = "left"
  /\ resizingTask.task.startDate < resizingTask.task.endDate
  /\ HasTask(resizingTask.task.id)
  /\ TaskIn(tasks, resizingTask.task.id).startDate = resizingTask.task.endDate
  /\ TaskIn(tasks, resizingTask.task.id).endDate = resizingTask.task.endDate
  /\ hoveredDay = resizingTask.task.endDate

\* two task records differ in their dates at most
sameButDates(a, b) ==
  /\ DOMAIN a = DOMAIN b
  /\ \A f \in DOMAIN a \ {"startDate", "endDate"} : a[f] = b[f]

\* the step changes the dates of the task with this id at most: the collection
\* keeps its size and its order, and every other task is as it was
onlyDatesOf(id) ==
  /\ Len(tasks') = Len(tasks)
  /\ \A i \in 1..Len(tasks) :
       IF tasks[i].id = id THEN sameButDates(tasks'[i], tasks[i])
                           ELSE tasks'[i] = tasks[i]

\* C24 (checked under SpecMounted): a resize step (a pointer-enter while a task
\* is resized) and a drop (the pointer-up while a task is dragged) change the
\* startDate and endDate of the gestured task and nothing else: its id, name,
\* category, assignedUser, priority and color, every other task, and the size
\* and order of the collection are as before; and no other pointer event
\* changes the collection.
C24_OnlyDatesOfGesturedTask ==
  [][ /\ ((\E day \in Days : handleMouseEnter(day)) /\ resizingTask # Null)
           => onlyDatesOf(resizingTask.task.id)
      /\ (handleMouseUp /\ draggedTask # Null) => onlyDatesOf(draggedTask.id)
      /\ tasks' # tasks =>
           \/ (\E day \in Days : handleMouseEnter(day)) /\ resizingTask # Null
           \/ handleMouseUp /\ draggedTask # Null /\ hoveredDay # NoDay ]_vars

\* beside the second task, the first one has got another start in an earlier
\* gesture and is now being resized, a step of the resize already applied
C24_Witness ==
  /\ Len(tasks) = 2
  /\ tasks[1].startDate # MountedTasks[1].startDate
  /\ resizingTask # Null
  /\ resizingTask.task.id = tasks[1].id
  /\ resizedEdge(tasks[1], resizingTask.mode) # resizingTask.originalDate
  /\ Duration(tasks[1]) # Duration(MountedTasks[1])

\* C25 (checked under SpecStore): saving the edit form of a task of the
\* collection gives that task the form's name, category, assignedUser, priority
\* and color and leaves its id, startDate and endDate as the collection has them
\* at the save, whatever they were when the form was opened; every other task
\* and the size and order of the collection are unchanged.
C25_EditSaveMergesFormFields ==
  [][\A form \in FormOutputs :
       ( /\ handleModalSave(form)
         /\ selectedTask # Null /\ selectedTask.id # NoId
         /\ HasTask(selectedTask.id) )
       => LET before == TaskIn(tasks, selectedTask.id)
              after == TaskIn(tasks', selectedTask.id)
          IN /\ after.id = before.id
             /\ after.startDate = before.startDate
             /\ after.endDate = before.endDate
             /\ after.name = form.name
             /\ after.category = form.category
             /\ after.assignedUser = form.assignedUser
             /\ after.priority = form.priority
             /\ after.color = form.color
             /\ Len(tasks') = Len(tasks)
             /\ \A i \in 1..Len(tasks) :
                  tasks[i].id # selectedTask.id => tasks'[i] = tasks[i]
             /\ \A i \in 1..Len(tasks) : tasks'[i].id = tasks[i].id ]_vars

\* the form is open on the first of two tasks, whose endDate has changed in
\* the collection since
C25_Witness ==
  /\ isModalOpen
  /\ selectedTask # Null /\ selectedTask.id # NoId
  /\ Len(tasks) = 2
  /\ tasks[1].id = selectedTask.id
  /\ tasks[1].endDate # selectedTask.endDate
  /\ ENABLED handleModalSave(OtherForm)

\* the form is open on the range a selection has committed
createFormOpen == isModalOpen /\ selectedTask # Null /\ selectedTask.id = NoId

\* C26 (checked under SpecSelect): once a selection has committed the range
\* [s, e] (the form is open on it and the selection holds it, not selecting),
\* saving the form adds one task after the tasks there are, with startDate = s,
\* endDate = e, the form's five fields and an id no other task has, the other
\* tasks and their order being as they were; closing the form instead leaves
\* the collection as it was; either way the form is closed and the selection
\* has no start, no end and is not selecting.
C26_CreateFromCommittedRange ==
  /\ [](createFormOpen =>
          dragSelection = [startDate |-> selectedTask.startDate,
                           endDate |-> selectedTask.endDate, isSelecting |-> FALSE])
  /\ [][ /\ \A form \in FormOutputs :
              (createFormOpen /\ handleModalSave(form)) =>
                LET new == tasks'[Len(tasks')]
                IN /\ Len(tasks') = Len(tasks) + 1
                   /\ SubSeq(tasks', 1, Len(tasks)) = tasks
                   /\ new.startDate = dragSelection.startDate
                   /\ new.endDate = dragSelection.endDate
                   /\ new.name = form.name /\ new.category = form.category
                   /\ new.assignedUser = form.assignedUser
                   /\ new.priority = form.priority /\ new.color = form.color
                   /\ new.id # NoId /\ ~HasTask(new.id)
                   /\ dragSelection' = NoSelection
                   /\ ~isModalOpen'
         /\ (createFormOpen /\ handleModalClose) =>
              (tasks' = tasks /\ dragSelection' = NoSelection /\ ~isModalOpen') ]_vars

\* a task of several days has been created after the two mounted ones, and
\* the selection is cleared
C26_Witness ==
  /\ Len(tasks) = Len(MountedTasks) + 1
  /\ SubSeq(tasks, 1, Len(MountedTasks)) = MountedTasks
  /\ tasks[Len(tasks)].startDate < tasks[Len(tasks)].endDate
  /\ dragSelection = NoSelection
  /\ ~isModalOpen

\* C27 (checked under SpecPixel): a pointer-down at pixel x of a week segment,
\* 0 <= x < the segment's width, that starts a drag grabs the day whose column
\* holds x, a day of that segment [taskStart, taskEnd]; dragOffset becomes the
\* number of days from the task's true startDate to the grabbed day, between 0
\* and endDate - startDate; and the offset is set by such a pointer-down only:
\* no pointer-enter, pointer-up or leave of the gesture changes it.  (A
\* pointer-down on a strip changes the dragged task, the offset or the resized
\* task and nothing else: other steps are passed over in the first part.)
C27_OffsetFromGrabbedDay ==
  [][ /\ (/\ draggedTask' # draggedTask \/ dragOffset' # dragOffset
          /\ resizingTask' = resizingTask /\ tasks' = tasks
          /\ hoveredDay' = hoveredDay /\ isDragging' = isDragging)
        => \A weekStart \in WeekStarts : \A i \in 1..Len(getTasksForWeek(weekStart)) :
             LET task == getTasksForWeek(weekStart)[i]
                 segStart == taskStart(task, weekStart)
                 segEnd == taskEnd(task, weekStart)
             IN \A columnWidth \in DayColumnWidths :
                  \A clickX \in ClickXs(segEnd - segStart + 1, columnWidth) :
                    LET grabbed == segStart + clickX \div columnWidth
                    IN TaskStripMouseDownAt(task, weekStart, clickX, columnWidth)
                         => /\ draggedTask' = task
                            /\ grabbed >= segStart
                            /\ grabbed <= segEnd
                            /\ dragOffset' = grabbed - task.startDate
                            /\ dragOffset' >= 0
                            /\ dragOffset' <= task.endDate - task.startDate
      /\ dragOffset' # dragOffset =>
           /\ draggedTask' # Null
           /\ \E weekStart \in WeekStarts : \E i \in 1..Len(getTasksForWeek(weekStart)) :
                LET task == getTasksForWeek(weekStart)[i]
                    columns == taskEnd(task, weekStart) - taskStart(task, weekStart) + 1
                IN \E columnWidth \in DayColumnWidths :
                     \E clickX \in ClickXs(columns, columnWidth) :
                       TaskStripMouseDownAt(task, weekStart, clickX, columnWidth) ]_vars

\* a task split across the two week rows was grabbed by a day of its second
\* segment, past its true start, and the pointer has since moved to another day
C27_Witness ==
  /\ draggedTask # Null
  /\ resizingTask = Null
  /\ dragOffset > 0
  /\ \E weekStart \in WeekStarts :
       /\ draggedTask.startDate < weekStart
       /\ draggedTask.startDate + dragOffset >= weekStart
  /\ hoveredDay # NoDay
  /\ hoveredDay # draggedTask.startDate + dragOffset

\* C28 (checked under SpecLoad): the load makes one task of every stored
\* record, in order.  A later field (assignedUser, priority, color) that the
\* record lacks gets its default: the name of the first user of the directory,
\* the priority labelled High, which is P1, and the first color, blue.  Every
\* field the record has is the task's: id, name, category, the later fields
\* that are present, and a date stored as the ISO text of a day is that day.
C28_LegacyDefaults ==
  LET Default(field) ==
        CASE field = "assignedUser" -> mockUsers[1]
          [] field = "priority" ->
               CHOOSE p \in Range(priorities) : priorityLabels[p] = "High"
          [] field = "color" -> colors[1]
  IN /\ Len(tasks) = Len(loadedFrom.item)
     /\ \A i \in 1..Len(loadedFrom.item) :
          LET rec == loadedFrom.item[i]
          IN /\ tasks[i].id = rec.id
             /\ tasks[i].name = rec.name
             /\ tasks[i].category = rec.category
             /\ rec.startDate.kind = "iso" => tasks[i].startDate = rec.startDate.day
             /\ rec.endDate.kind = "iso" => tasks[i].endDate = rec.endDate.day
             /\ \A field \in LaterFields :
                  tasks[i][field] =
                    IF field \in DOMAIN rec THEN rec[field] ELSE Default(field)
     /\ mockUsers[1] = "John Doe" /\ colors[1] = "blue"
     /\ priorityLabels["P1"] = "High"

\* a record that lacks its priority only was loaded: the task has P1, and the
\* user and the color that were stored
C28_Witness ==
  \E i \in 1..Len(loadedFrom.item) :
    /\ DOMAIN loadedFrom.item[i] \cap LaterFields = {"assignedUser", "color"}
    /\ tasks[i].priority = "P1"
    /\ tasks[i].assignedUser = "Jane Smith"
    /\ tasks[i].color = "green"
    /\ tasks[i].startDate = 7

\* C29 (checked under SpecAnchor): in every reachable state in which the
\* selection has both a start and an end, its start is not after its end,
\* wherever the pointer went down and whichever days it entered since.
C29_SelectionOrdered ==
  (dragSelection.startDate # NoDay /\ dragSelection.endDate # NoDay)
    => dragSelection.startDate <= dragSelection.endDate

\* a selection in progress whose pointer went back before the day it went down
\* on and then forward past that day
C29_Witness ==
  /\ isDragging /\ dragSelection.isSelecting
  /\ anchorDay # NoDay
  /\ dragSelection.startDate < anchorDay
  /\ dragSelection.endDate > anchorDay
  /\ hoveredDay = dragSelection.endDate

\* C30 (checked under Spec): whenever the selection is flagged as in progress
\* (dragSelection.isSelecting), a selecting gesture is active (isDragging); in
\* particular the flag is down once the pointer has left the grid container
\* during a selection.
C30_SelectingImpliesDragging == dragSelection.isSelecting => isDragging

\* the day a dragged task was grabbed by
grabbedDay == draggedTask.startDate + dragOffset

\* C31 (checked under SpecPixel): while a task is dragged (and not resized at
\* the same time) the day G it was grabbed by is one of its days, whichever week
\* segment the pointer went down on; and a pointer-up while the pointer is over
\* G leaves the collection as it was: the task keeps its startDate and endDate.
C31_ReleaseOnGrabbedDay ==
  /\ [](( OnlyDragging /\ HasTask(draggedTask.id) ) =>
          /\ grabbedDay >= TaskIn(tasks, draggedTask.id).startDate
          /\ grabbedDay <= TaskIn(tasks, draggedTask.id).endDate)
  /\ [][( /\ handleMouseUp
          /\ OnlyDragging
          /\ HasTask(draggedTask.id)
          /\ hoveredDay = grabbedDay )
        => /\ \E t \in Range(tasks') : t.id = draggedTask.id
           /\ TaskIn(tasks', draggedTask.id).startDate
                = TaskIn(tasks, draggedTask.id).startDate
           /\ TaskIn(tasks', draggedTask.id).endDate
                = TaskIn(tasks, draggedTask.id).endDate
           /\ tasks' = tasks ]_vars

\* a task split across the two week rows was grabbed by a day of its second
\* segment, whose left end is week-clipped, and the pointer is over that day again
\* after having been elsewhere: the release is next
C31_Witness ==
  /\ OnlyDragging
  /\ HasTask(draggedTask.id)
  /\ dragOffset > 0
  /\ \E weekStart \in WeekStarts :
       /\ TaskIn(tasks, draggedTask.id).startDate < weekStart
       /\ grabbedDay >= weekStart
  /\ hoveredDay = grabbedDay
  /\ ENABLED handleMouseUp

\* the task as it was at the pointer-down, with its resized boundary on a day
withEdge(task, mode, day) ==
  IF mode = "right" THEN [task EXCEPT !.endDate = day]
                    ELSE [task EXCEPT !.startDate = day]

\* C32: the outcome of a gesture does not depend on the path of the pointer.
\* In a drag (with no resize on top of it) the days entered leave the task in
\* the collection as it was at the pointer-down, and the release makes of it
\* what the dates at the pointer-down, dragOffset and the day last entered
\* give: startDate = that day - dragOffset, the duration kept.  In a resize
\* (with no drag on top of it) the task is at any time the task of the
\* pointer-down but for the resized boundary; a day that passes the guard puts
\* the boundary on that day whatever was entered before, a day that fails it
\* and the end of the gesture leave the boundary where it is.
C32_PathIndependent ==
  /\ []((OnlyDragging /\ HasTask(draggedTask.id)) =>
          TaskIn(tasks, draggedTask.id) = draggedTask)
  /\ []((OnlyResizing /\ HasTask(resizingTask.task.id)) =>
          \E day \in Days :
            TaskIn(tasks, resizingTask.task.id)
              = withEdge(resizingTask.task, resizingTask.mode, day))
  /\ [][ /\ ( /\ handleMouseUp
              /\ OnlyDragging
              /\ hoveredDay # NoDay
              /\ HasTask(draggedTask.id) )
            => TaskIn(tasks', draggedTask.id) =
                 [draggedTask EXCEPT
                    !.startDate = hoveredDay - dragOffset,
                    !.endDate = (hoveredDay - dragOffset) + Duration(draggedTask)]
         /\ \A day \in Days :
              ( /\ handleMouseEnter(day)
                /\ OnlyResizing
                /\ HasTask(resizingTask.task.id) )
              => TaskIn(tasks', resizingTask.task.id) =
                   IF wouldInvert(resizingTask.task, resizingTask.mode, day)
                     THEN TaskIn(tasks, resizingTask.task.id)
                     ELSE withEdge(resizingTask.task, resizingTask.mode, day)
         /\ ((handleMouseUp \/ onMouseLeave) /\ OnlyResizing) => tasks' = tasks ]_vars

\* a resize has put the boundary on the day last entered, inwards of where it
\* was at the pointer-down: the task is the one of the pointer-down with that
\* boundary, whatever days were entered on the way
C32_Witness ==
  /\ OnlyResizing
  /\ HasTask(resizingTask.task.id)
  /\ hoveredDay # NoDay
  /\ TaskIn(tasks, resizingTask.task.id)
       = withEdge(resizingTask.task, resizingTask.mode, hoveredDay)
  /\ IF resizingTask.mode = "right"
       THEN hoveredDay < resizingTask.originalDate
       ELSE hoveredDay > resizingTask.originalDate

\* the time windows from the narrowest to the widest
windowRank(filter) ==
  CASE filter = "1week" -> 1 [] filter = "2weeks" -> 2
    [] filter = "3weeks" -> 3 [] OTHER -> 4

\* C33 (checked under SpecWindows): the time windows are nested.  When the time
\* filter is set to a wider window (1week, 2weeks, 3weeks, all, in this order),
\* the collection, the category and user filters and the clock being what they
\* are, every task that was visible is still visible, in the same order.
C33_WindowsNested ==
  [][ ( /\ windowRank(timeFilter') >= windowRank(timeFilter)
        /\ tasks' = tasks /\ now' = now
        /\ categoryFilters' = categoryFilters /\ userFilters' = userFilters )
      => /\ Range(filteredTasks) \subseteq Range(filteredTasks')
         /\ filteredTasks = SelectSeq(filteredTasks',
                                      LAMBDA t : t \in Range(filteredTasks)) ]_vars

\* under the 2 weeks window two tasks are visible: one that the 1 week window
\* shows as well, and one that it cuts off
C33_Witness ==
  /\ timeFilter = "2weeks"
  /\ \E t \in Range(filteredTasks) : daysDiff(t) <= 7
  /\ \E t \in Range(filteredTasks) : daysDiff(t) > 7

\* C34 (checked under SpecRows): every segment a week row of the grid renders
\* has 0 <= startDayIndex <= endDayIndex <= 6, hence a width of one day at
\* least and a left offset and width that together stay within the 7 days of
\* the row; and a visible task whose dates do not meet the week has no segment
\* in its row.
C34_SegmentWithinWeek ==
  \A w \in 1..Len(weeks) :
    LET weekStart == weeks[w][1]
        row == getTasksForWeek(weekStart)
    IN /\ \A j \in 1..Len(row) :
            LET startIndex == startDayIndex(row[j], weekStart)
                endIndex == endDayIndex(row[j], weekStart)
                width == endIndex - startIndex + 1
            IN (startIndex # -1 /\ endIndex # -1) =>
                 /\ 0 <= startIndex /\ startIndex <= endIndex
                 /\ endIndex <= DaysPerWeek - 1
                 /\ width >= 1
                 /\ startIndex + width <= DaysPerWeek
       /\ \A i \in 1..Len(filteredTasks) :
            (\/ filteredTasks[i].endDate < weekStart
             \/ filteredTasks[i].startDate > weekStart + DaysPerWeek - 1)
              => ~rendered(filteredTasks[i], weekStart)

\* a visible task that begins before a week row and ends after it has the
\* whole row as its segment there, and no segment in a row it does not meet
C34_Witness ==
  \E i \in 1..Len(filteredTasks) : \E w \in 1..Len(weeks) : \E v \in 1..Len(weeks) :
    LET task == filteredTasks[i]
    IN /\ rendered(task, weeks[w][1])
       /\ task.startDate < weeks[w][1]
       /\ task.endDate > weeks[w][1] + DaysPerWeek - 1
       /\ startDayIndex(task, weeks[w][1]) = 0
       /\ endDayIndex(task, weeks[w][1]) = DaysPerWeek - 1
       /\ task.endDate < weeks[v][1]
       /\ ~rendered(task, weeks[v][1])

\* C35 (checked under SpecStartup): when the page starts on a stored collection
\* that is not empty, then once the load effect, the save effect, the render of
\* the loaded tasks and its save effect have run, storage holds as many records
\* as before, in the same order, each with every field it had before (a date
\* that was stored as the ISO text of a day is that text), and the collection
\* in memory is what storage holds: the [] that the first save effect wrote
\* has been written over.
C35_StartupKeepsStored ==
  (mount.pc = "done" /\ loadedFrom # Null /\ Len(loadedFrom.item) > 0) =>
    /\ storage # Null
    /\ Len(storage.item) = Len(loadedFrom.item)
    /\ Len(tasks) = Len(loadedFrom.item)
    /\ \A i \in 1..Len(loadedFrom.item) :
         LET before == loadedFrom.item[i]
             after == storage.item[i]
         IN /\ \A field \in (DOMAIN before) \ {"startDate", "endDate"} :
                 field \in DOMAIN after /\ after[field] = before[field]
            /\ before.startDate.kind = "iso" => after.startDate = before.startDate
            /\ before.endDate.kind = "iso" => after.endDate = before.endDate
            /\ storedAs(after, tasks[i])

\* the mount is over on two stored records, of which the first was written
\* before the later fields existed; the collection has both
C35_Witness ==
  /\ mount.pc = "done"
  /\ loadedFrom # Null
  /\ Len(loadedFrom.item) = 2
  /\ "color" \notin DOMAIN loadedFrom.item[1]
  /\ loadedFrom.item[2].startDate.kind = "iso"
  /\ Len(tasks) = 2
  /\ storage # loadedFrom
  /\ storage.item[2] = loadedFrom.item[2]

\* C36 (checked under SpecTaskBar): in a TaskBar, the move gesture and the
\* resize gesture both measure the pointer's horizontal displacement from where
\* the pointer went down to start the gesture: the mousemove listener that the
\* pointer-down at clientX = x attaches has dragStart.x = x, so that a
\* pointer-move that comes to x itself changes no date.
C36_DisplacementFromPointerDown ==
  [][ \A b \in BarIds : \A x \in DownXs :
        ( /\ taskBars[b].mounted
          /\ ~barGesture(b)
          /\ taskBars' = [taskBars EXCEPT ![b] = barMouseDown(taskBars[b], b, x)]
          /\ taskBars' # taskBars )
        => LET ls == listenersOf(docListeners', b)
           IN /\ Len(ls) > 0
              /\ \A i \in 1..Len(ls) :
                   ls[i].type = "mousemove" =>
                     /\ ls[i].closure.dragStart = x
                     /\ moveUpdates(ls[i].closure, x) = Null ]_vars
====
